---- MODULE Spec2Model ----
(***************************************************************************)
(* ArchipelagoJigsaw: the puzzle board of worlds/jigsaw/Rules.py           *)
(* (PuzzleBoard: add_piece, get_merges_from_adding_piece, remove_piece)    *)
(* and the flood-fill merge counter of worlds/jigsaw/testlogic.py.         *)
(*                                                                         *)
(* Spec        a PuzzleBoard driven by arbitrary calls that respect the    *)
(*             documented preconditions (add_piece on an empty cell,       *)
(*             remove_piece on a placed cell, query on an empty cell).     *)
(* SpecCounter the testlogic.py script run on its 5 x 5 grid with an       *)
(*             arbitrary list of distinct piece ids.                       *)
(***************************************************************************)
EXTENDS Integers, Sequences, FiniteSets, TLC

\* ------------------------------------------------------------------------
\* Bounds of the model
\* ------------------------------------------------------------------------

\* PuzzleBoard grids explored by Spec: width * height <= MaxCells.
MaxCells == 6

\* Longest list `pieces` given to the testlogic.py script by SpecCounter.
MaxPieces == 3

\* PuzzleBoard grids explored by SpecMisuse: width * height <= MaxCellsMisused.
MaxCellsMisused == 4

\* Grids planned by SpecPlanner: nx * ny <= MaxPlanCells.
MaxPlanCells == 6

\* Largest number_of_checks_out_of_logic (the slack) given to the planner.
MaxSlack == 1

\* Grids given to the table builder by SpecTable: nx * ny <= MaxTableCells.
MaxTableCells == 15

\* Grids planned by SpecLeastMerges: nx * ny <= MaxLeastCells.
MaxLeastCells == 8

\* ------------------------------------------------------------------------
\* Python values
\* ------------------------------------------------------------------------

\* Python lists are sequences built with <<>>, Append and \o, never with
\* [i \in 1..n |-> e]: TLC keeps such a function unevaluated inside f[x] and
\* then drops its EXCEPT updates in Tail, Append, SubSeq and \o.

\* Python's None in a board slot (cluster ids are >= 0).
None == -1

\* No exception is propagating.
NoError == "none"

Range(s) == {s[i] : i \in 1..Len(s)}

\* Every order in which the elements of a finite set can be enumerated.
Orders(S) ==
    {s \in [1..Cardinality(S) -> S] : \A i, j \in 1..Cardinality(S) : s[i] = s[j] => i = j}

\* list.remove(x): drops the first occurrence of x.
RECURSIVE ListRemove(_, _)
ListRemove(s, x) ==
    IF s = <<>> THEN <<>>
    ELSE IF Head(s) = x THEN Tail(s)
    ELSE <<Head(s)>> \o ListRemove(Tail(s), x)

\* list[k] of a Python list (indices start at 0).
At(list, k) == list[k + 1]

\* list.sort() on a list of integers.
RECURSIVE Inserted(_, _)
Inserted(list, x) ==
    IF list = <<>> THEN <<x>>
    ELSE IF x <= Head(list) THEN <<x>> \o list
    ELSE <<Head(list)>> \o Inserted(Tail(list), x)

RECURSIVE Sorted(_)
Sorted(list) ==
    IF list = <<>> THEN <<>> ELSE Inserted(Sorted(Tail(list)), Head(list))

\* min(a, b) and max(a, b).
Min(a, b) == IF a <= b THEN a ELSE b
Max(a, b) == IF a >= b THEN a ELSE b

\* ------------------------------------------------------------------------
\* Python floats
\* ------------------------------------------------------------------------

\* A non-negative float is the record [bits, exp] that stands for
\* (the binary number bits) * 2^exp, bits being a list of 0s and 1s, most
\* significant first, without leading zeros (<<>> for 0.0), of at most
\* DoubleBits significant bits: Python floats are IEEE 754 doubles and every
\* operation returns the double nearest to the exact result, ties going to
\* the even one.
DoubleBits == 53

\* The operators below read their arguments many times; each binds its
\* argument to its value first (v \in {argument}), so that the argument is
\* computed once.

\* The binary digits of a natural number.
RECURSIVE BitsOf(_)
BitsOf(n) ==
    CHOOSE out \in {IF v = 0 THEN <<>> ELSE Append(BitsOf(v \div 2), v % 2) : v \in {n}} :
        TRUE

\* The natural number with the given binary digits.
RECURSIVE IntOf(_)
IntOf(bits) ==
    CHOOSE out \in {IF b = <<>> THEN 0
                    ELSE 2 * IntOf(SubSeq(b, 1, Len(b) - 1)) + b[Len(b)] : b \in {bits}} :
        TRUE

\* bits without its leading zeros.
StripLeading(bits) ==
    CHOOSE out \in
        {IF \A j \in 1..Len(b) : b[j] = 0 THEN <<>>
         ELSE LET first == CHOOSE j \in 1..Len(b) :
                               b[j] = 1 /\ \A i \in 1..(j - 1) : b[i] = 0
              IN  SubSeq(b, first, Len(b)) : b \in {bits}} :
        TRUE

\* n zeros.
RECURSIVE Zeros(_)
Zeros(n) ==
    CHOOSE out \in
        {half \o half \o (IF v > 0 /\ v % 2 = 1 THEN <<0>> ELSE <<>>) :
            v \in {n}, half \in {IF n <= 1 THEN <<>> ELSE Zeros(n \div 2)}} :
        TRUE

\* bits + 1.
Increment(bits) ==
    CHOOSE out \in
        {IF \A j \in 1..Len(b) : b[j] = 1 THEN <<1>> \o Zeros(Len(b))
         ELSE LET low == CHOOSE j \in 1..Len(b) :
                             b[j] = 0 /\ \A i \in (j + 1)..Len(b) : b[i] = 1
              IN  SubSeq(b, 1, low - 1) \o <<1>> \o Zeros(Len(b) - low) : b \in {bits}} :
        TRUE

\* The arithmetic on digit lists goes ten binary digits at a time.  The ten
\* binary digits of a number below 1024:
TenBits(l) ==
    CHOOSE out \in
        {<<(v \div 512) % 2, (v \div 256) % 2, (v \div 128) % 2, (v \div 64) % 2,
           (v \div 32) % 2, (v \div 16) % 2, (v \div 8) % 2, (v \div 4) % 2,
           (v \div 2) % 2, v % 2>> : v \in {l}} :
        TRUE

\* The digits of bits in groups of ten from the right, each group as a
\* number.
RECURSIVE Limbs(_)
Limbs(bits) ==
    CHOOSE out \in
        {IF Len(b) <= 10 THEN <<IntOf(b)>>
         ELSE Append(Limbs(SubSeq(b, 1, Len(b) - 10)),
                     IntOf(SubSeq(b, Len(b) - 9, Len(b)))) : b \in {bits}} :
        TRUE

\* The binary digits of a list of such groups.
RECURSIVE DigitsOf(_)
DigitsOf(limbs) ==
    CHOOSE out \in
        {IF l = <<>> THEN <<>> ELSE TenBits(Head(l)) \o DigitsOf(Tail(l)) : l \in {limbs}} :
        TRUE

\* The double nearest to bits * 2^exp, or to a value just above it when
\* sticky (a nonzero remainder was left out of bits).
RoundToDouble(bits, exp, sticky) ==
    CHOOSE out \in
        {IF Len(b) <= DoubleBits THEN [bits |-> b, exp |-> exp]
         ELSE LET guard == b[DoubleBits + 1]
                  rest  == sticky \/ \E j \in (DoubleBits + 2)..Len(b) : b[j] = 1
                  up    == guard = 1 /\ (rest \/ b[DoubleBits] = 1)
              IN  [bits |-> IF up THEN Increment(SubSeq(b, 1, DoubleBits))
                            ELSE SubSeq(b, 1, DoubleBits),
                   exp  |-> exp + (Len(b) - DoubleBits)] : b \in {bits}} :
        TRUE

\* The binary expansion of r / d (r < d) appended to acc, ten digits at a
\* time, until the remainder is 0 or two digits more than a double keeps are
\* there.
RECURSIVE Expansion(_, _, _, _)
Expansion(acc, r, d, digits) ==
    CHOOSE out \in
        {IF a.r = 0 \/ Len(StripLeading(a.acc)) >= DoubleBits + 2
         THEN [bits |-> a.acc, digits |-> a.digits, sticky |-> a.r # 0]
         ELSE Expansion(a.acc \o TenBits((a.r * 1024) \div a.d),
                        (a.r * 1024) % a.d, a.d, a.digits + 10) :
            a \in {[acc |-> acc, r |-> r, d |-> d, digits |-> digits]}} :
        TRUE

\* q / d for ints q >= 0 and d > 0 (true division).
float_div(q, d) ==
    CHOOSE out \in
        {RoundToDouble(StripLeading(e.bits), -e.digits, e.sticky) :
            e \in {Expansion(BitsOf(q \div d), q % d, d, 0)}} :
        TRUE

\* limbs * n, from the group k of limbs down to the first.
RECURSIVE TimesFrom(_, _, _, _, _)
TimesFrom(limbs, k, n, carry, acc) ==
    CHOOSE out \in
        {IF a.k = 0 THEN BitsOf(a.carry) \o DigitsOf(a.acc)
         ELSE TimesFrom(a.limbs, a.k - 1, a.n, a.digit \div 1024,
                        <<a.digit % 1024>> \o a.acc) :
            a \in {[limbs |-> limbs, k |-> k, n |-> n, carry |-> carry, acc |-> acc,
                    digit |-> IF k = 0 THEN 0 ELSE limbs[k] * n + carry]}} :
        TRUE

\* x * n for a float x and an int n >= 0 (n converts to a float exactly).
float_mul(x, n) ==
    CHOOSE out \in
        {RoundToDouble(StripLeading(TimesFrom(limbs, Len(limbs), n, 0, <<>>)),
                       v.exp, FALSE) : v \in {x}, limbs \in {Limbs(x.bits)}} :
        TRUE

\* a + b for lists of groups of the same length, from group k down.
RECURSIVE PlusFrom(_, _, _, _, _)
PlusFrom(a, b, k, carry, acc) ==
    CHOOSE out \in
        {IF s.k = 0 THEN BitsOf(s.carry) \o DigitsOf(s.acc)
         ELSE PlusFrom(s.a, s.b, s.k - 1, s.digit \div 1024,
                       <<s.digit % 1024>> \o s.acc) :
            s \in {[a |-> a, b |-> b, k |-> k, carry |-> carry, acc |-> acc,
                    digit |-> IF k = 0 THEN 0 ELSE a[k] + b[k] + carry]}} :
        TRUE

\* n + x for an int n >= 0 and a float x.
float_add(n, x) ==
    CHOOSE out \in
        {LET exp == Min(0, v.exp)
             a   == Limbs(BitsOf(n) \o Zeros(-exp))
             b   == Limbs(v.bits \o Zeros(v.exp - exp))
             len == Max(Len(a), Len(b))
             a0  == Zeros(len - Len(a)) \o a
             b0  == Zeros(len - Len(b)) \o b
         IN  RoundToDouble(StripLeading(PlusFrom(a0, b0, len, 0, <<>>)), exp, FALSE) :
            v \in {x}} :
        TRUE

\* int(x): the float without its fraction.
int_of(x) ==
    CHOOSE out \in
        {IF v.exp >= 0 THEN IntOf(v.bits \o Zeros(v.exp))
         ELSE IntOf(SubSeq(v.bits, 1, Max(0, Len(v.bits) + v.exp))) : v \in {x}} :
        TRUE

\* math.ceil(x).
math_ceil(x) ==
    CHOOSE out \in
        {IF v.exp >= 0 THEN int_of(v)
         ELSE IF \E j \in (Max(0, Len(v.bits) + v.exp) + 1)..Len(v.bits) : v.bits[j] = 1
              THEN int_of(v) + 1
              ELSE int_of(v) : v \in {x}} :
        TRUE

\* ------------------------------------------------------------------------
\* PuzzleBoard (Rules.py)
\* ------------------------------------------------------------------------

\* Mutant of adjacent_pieces_of: the neighbour above (i - width) is forgotten.
adjacent_pieces_of_no_up(w, h, i) ==
    LET x == i % w
        y == i \div w
    IN  (IF x > 0 THEN <<i - 1>> ELSE <<>>)
        \o (IF x < w - 1 THEN <<i + 1>> ELSE <<>>)
        \o (IF y < h - 1 THEN <<i + w>> ELSE <<>>)

\* __init__, lines 69-84: the in-bounds neighbours of cell i, in the order
\* left, right, up, down.
adjacent_pieces_of(w, h, i) ==
    LET x == i % w
        y == i \div w
    IN  (IF x > 0 THEN <<i - 1>> ELSE <<>>)
        \o (IF x < w - 1 THEN <<i + 1>> ELSE <<>>)
        \o (IF y > 0 THEN <<i - w>> ELSE <<>>)
        \o (IF y < h - 1 THEN <<i + w>> ELSE <<>>)

\* list(range(n)): the list 0, 1, ..., n - 1.
RECURSIVE ListOfRange(_)
ListOfRange(n) == IF n <= 0 THEN <<>> ELSE Append(ListOfRange(n - 1), n - 1)

\* A board whose pool has half the number of cells rounded down.
PuzzleBoard_half_pool(w, h) ==
    LET n == w * h
    IN  [ unused_ids      |-> ListOfRange(n \div 2),
          board           |-> [i \in 0..(n - 1) |-> None],
          adjacent_pieces |-> [i \in 0..(n - 1) |-> adjacent_pieces_of(w, h, i)],
          merges_count    |-> 0,
          clusters        |-> [k \in {} |-> <<>>],
          raised          |-> NoError ]

\* __init__: the board object after construction.
PuzzleBoard(w, h) ==
    LET n == w * h
        max_isolated_pieces == (n \div 2) + (n % 2)
    IN  [ unused_ids      |-> ListOfRange(max_isolated_pieces),
          board           |-> [i \in 0..(n - 1) |-> None],
          adjacent_pieces |-> [i \in 0..(n - 1) |-> adjacent_pieces_of(w, h, i)],
          merges_count    |-> 0,
          clusters        |-> [k \in {} |-> <<>>],
          raised          |-> NoError ]

\* The values board[connection] over the neighbours of a piece (None included).
NeighbourValues(self, piece_index) ==
    {self.board[c] : c \in Range(self.adjacent_pieces[piece_index])}

\* add_piece lines 98-100: the distinct cluster ids next to the piece.
found_clusters(self, piece_index) == NeighbourValues(self, piece_index) \ {None}

\* add_piece lines 126-136: the first cluster of the iteration `it` that has
\* the maximum number of pieces (a later one replaces it only when larger).
RECURSIVE LargestFrom(_, _, _, _)
LargestFrom(clusters, it, k, best) ==
    IF k > Len(it) THEN best
    ELSE IF Len(clusters[it[k]]) > Len(clusters[best])
         THEN LargestFrom(clusters, it, k + 1, it[k])
         ELSE LargestFrom(clusters, it, k + 1, best)

\* Mutant of largest_cluster_id: the first cluster of the iteration with the
\* fewest pieces survives.
RECURSIVE SmallestFrom(_, _, _, _)
SmallestFrom(clusters, it, k, best) ==
    IF k > Len(it) THEN best
    ELSE IF Len(clusters[it[k]]) < Len(clusters[best])
         THEN SmallestFrom(clusters, it, k + 1, it[k])
         ELSE SmallestFrom(clusters, it, k + 1, best)

smallest_cluster_id(clusters, it) == SmallestFrom(clusters, it, 2, it[1])

\* A search in which a later cluster of the iteration replaces the best one
\* when it is as large: on ties the last cluster survives.
RECURSIVE LastLargestFrom(_, _, _, _)
LastLargestFrom(clusters, it, k, best) ==
    IF k > Len(it) THEN best
    ELSE IF Len(clusters[it[k]]) >= Len(clusters[best])
         THEN LastLargestFrom(clusters, it, k + 1, it[k])
         ELSE LastLargestFrom(clusters, it, k + 1, best)

last_largest_cluster_id(clusters, it) == LastLargestFrom(clusters, it, 2, it[1])

largest_cluster_id(clusters, it) == LargestFrom(clusters, it, 2, it[1])

\* add_piece lines 143-148: the clusters of `it` other than the largest, in
\* iteration order.
Absorbed(it, largest) == SelectSeq(it, LAMBDA id : id # largest)

\* The pieces of the clusters ids, concatenated in order.
RECURSIVE PiecesOf(_, _)
PiecesOf(clusters, ids) ==
    IF ids = <<>> THEN <<>>
    ELSE clusters[Head(ids)] \o PiecesOf(clusters, Tail(ids))

\* add_piece, lines 103-107: an isolated piece gets a new id from the pool.
\* list.pop() on the empty pool raises IndexError before anything is assigned.
AddIsolated(self, piece_index) ==
    IF self.unused_ids = <<>>
    THEN [self EXCEPT !.raised = "IndexError"]
    ELSE LET new_id == self.unused_ids[Len(self.unused_ids)]
         IN  [self EXCEPT
                !.unused_ids = SubSeq(self.unused_ids, 1, Len(self.unused_ids) - 1),
                !.board = [self.board EXCEPT ![piece_index] = new_id],
                !.clusters = [k \in (DOMAIN self.clusters) \cup {new_id} |->
                                 IF k = new_id THEN <<piece_index>> ELSE self.clusters[k]]]

\* add_piece, lines 108-113: exactly one neighbouring cluster.
AddToOne(self, piece_index, found_cluster) ==
    [self EXCEPT
       !.merges_count = self.merges_count + 1,
       !.board = [self.board EXCEPT ![piece_index] = found_cluster],
       !.clusters = [self.clusters EXCEPT
                        ![found_cluster] = Append(self.clusters[found_cluster], piece_index)]]

\* Mutant of AddToMany: counts the unions made (k - 1) instead of the
\* clusters touched (k).
AddToMany_unions(self, piece_index, it) ==
    LET largest  == largest_cluster_id(self.clusters, it)
        absorbed == Absorbed(it, largest)
        moved    == PiecesOf(self.clusters, absorbed)
    IN  [self EXCEPT
           !.merges_count = self.merges_count + Len(it) - 1,
           !.board = [i \in DOMAIN self.board |->
                         IF i = piece_index \/ i \in Range(moved)
                         THEN largest ELSE self.board[i]],
           !.clusters = [k \in (DOMAIN self.clusters) \ Range(absorbed) |->
                            IF k = largest
                            THEN (self.clusters[largest] \o <<piece_index>>) \o moved
                            ELSE self.clusters[k]],
           !.unused_ids = self.unused_ids \o absorbed]

\* Mutant of AddToMany: the board slots of the absorbed pieces keep their old id.
AddToMany_stale_board(self, piece_index, it) ==
    LET largest  == largest_cluster_id(self.clusters, it)
        absorbed == Absorbed(it, largest)
        moved    == PiecesOf(self.clusters, absorbed)
    IN  [self EXCEPT
           !.merges_count = self.merges_count + Len(it),
           !.board = [self.board EXCEPT ![piece_index] = largest],
           !.clusters = [k \in (DOMAIN self.clusters) \ Range(absorbed) |->
                            IF k = largest
                            THEN (self.clusters[largest] \o <<piece_index>>) \o moved
                            ELSE self.clusters[k]],
           !.unused_ids = self.unused_ids \o absorbed]

\* Mutant of AddToMany: the ids of the absorbed clusters are not given back.
AddToMany_leaks_ids(self, piece_index, it) ==
    LET largest  == largest_cluster_id(self.clusters, it)
        absorbed == Absorbed(it, largest)
        moved    == PiecesOf(self.clusters, absorbed)
    IN  [self EXCEPT
           !.merges_count = self.merges_count + Len(it),
           !.board = [i \in DOMAIN self.board |->
                         IF i = piece_index \/ i \in Range(moved)
                         THEN largest ELSE self.board[i]],
           !.clusters = [k \in (DOMAIN self.clusters) \ Range(absorbed) |->
                            IF k = largest
                            THEN (self.clusters[largest] \o <<piece_index>>) \o moved
                            ELSE self.clusters[k]]]

\* add_piece, lines 114-150: several neighbouring clusters, visited in the
\* order `it`; the smaller ones are moved into the largest.
AddToMany(self, piece_index, it) ==
    LET largest  == largest_cluster_id(self.clusters, it)
        absorbed == Absorbed(it, largest)
        moved    == PiecesOf(self.clusters, absorbed)
    IN  [self EXCEPT
           !.merges_count = self.merges_count + Len(it),
           !.board = [i \in DOMAIN self.board |->
                         IF i = piece_index \/ i \in Range(moved)
                         THEN largest ELSE self.board[i]],
           !.clusters = [k \in (DOMAIN self.clusters) \ Range(absorbed) |->
                            IF k = largest
                            THEN (self.clusters[largest] \o <<piece_index>>) \o moved
                            ELSE self.clusters[k]],
           !.unused_ids = self.unused_ids \o absorbed]

\* add_piece with the set found_clusters iterated in the order `it`.
add_piece_iter(self, piece_index, it) ==
    IF Len(it) = 0 THEN AddIsolated(self, piece_index)
    ELSE IF Len(it) = 1 THEN AddToOne(self, piece_index, it[1])
    ELSE AddToMany(self, piece_index, it)

\* add_piece: the boards it can produce.  iter(found_clusters) walks a Python
\* set, whose order is an implementation detail of the hash table (it depends
\* on hash(None), which differs between builds and runs), so every order of
\* the found ids is possible.
add_piece(self, piece_index) ==
    {add_piece_iter(self, piece_index, it) : it \in Orders(found_clusters(self, piece_index))}

\* Mutant of get_merges_from_adding_piece: None is counted as a cluster.
get_merges_counting_none(self, piece_idx) ==
    Cardinality(NeighbourValues(self, piece_idx))

\* get_merges_from_adding_piece, lines 160-163.
get_merges_from_adding_piece(self, piece_idx) ==
    LET found == NeighbourValues(self, piece_idx)
    IN  IF None \in found THEN Cardinality(found) - 1 ELSE Cardinality(found)

\* remove_piece lines 192-194: add the pieces back one by one; an exception
\* raised by add_piece ends the loop.
RECURSIVE Replay(_, _)
Replay(selves, pieces) ==
    IF pieces = <<>> THEN selves
    ELSE Replay(UNION {IF s.raised # NoError THEN {s} ELSE add_piece(s, Head(pieces))
                       : s \in selves},
                Tail(pieces))

\* Mutant of WithoutCluster: the merges are reduced by the size of the cluster
\* with the removed piece still counted.
WithoutCluster_counts_removed(self, piece_idx) ==
    LET cluster_id        == self.board[piece_idx]
        pieces_in_cluster == self.clusters[cluster_id]
    IN  [self EXCEPT
           !.clusters = [k \in (DOMAIN self.clusters) \ {cluster_id} |-> self.clusters[k]],
           !.unused_ids = Append(self.unused_ids, cluster_id),
           !.board = [i \in DOMAIN self.board |->
                         IF i \in Range(pieces_in_cluster) THEN None ELSE self.board[i]],
           !.merges_count = self.merges_count - Len(pieces_in_cluster)]

\* remove_piece lines 172-189: the board with the whole cluster of the piece
\* taken off, its id returned to the pool and its merges subtracted.
WithoutCluster(self, piece_idx) ==
    LET cluster_id        == self.board[piece_idx]
        pieces_in_cluster == self.clusters[cluster_id]
        remaining         == ListRemove(pieces_in_cluster, piece_idx)
    IN  [self EXCEPT
           !.clusters = [k \in (DOMAIN self.clusters) \ {cluster_id} |-> self.clusters[k]],
           !.unused_ids = Append(self.unused_ids, cluster_id),
           !.board = [i \in DOMAIN self.board |->
                         IF i \in Range(pieces_in_cluster) THEN None ELSE self.board[i]],
           !.merges_count = self.merges_count - Len(remaining)]

\* Mutant of remove_piece: the removed piece is left in the list that is
\* replayed (pieces_in_cluster.remove(piece_idx) is forgotten).
remove_piece_replays_all(self, piece_idx) ==
    IF self.board[piece_idx] = None
    THEN {[self EXCEPT !.raised = "AssertionError"]}
    ELSE Replay({[WithoutCluster(self, piece_idx) EXCEPT
                     !.merges_count = self.merges_count
                                      - Len(self.clusters[self.board[piece_idx]])]},
                self.clusters[self.board[piece_idx]])

\* Mutant of remove_piece: a piece that is not on the board is ignored.
remove_piece_ignores_missing(self, piece_idx) ==
    IF self.board[piece_idx] = None
    THEN {self}
    ELSE Replay({WithoutCluster(self, piece_idx)},
                ListRemove(self.clusters[self.board[piece_idx]], piece_idx))

\* remove_piece: the boards it can produce.  The assert of line 174 raises
\* when the piece is not on the board.
remove_piece(self, piece_idx) ==
    IF self.board[piece_idx] = None
    THEN {[self EXCEPT !.raised = "AssertionError"]}
    ELSE Replay({WithoutCluster(self, piece_idx)},
                ListRemove(self.clusters[self.board[piece_idx]], piece_idx))

\* ------------------------------------------------------------------------
\* The merge counter of testlogic.py
\* ------------------------------------------------------------------------

\* testlogic.py lines 1-2.
script_nx == 5
script_ny == 5

\* Mutant of is_match: the end of a row is not checked, so the last piece of
\* a row matches the first piece of the next.
is_match_wraps(nx, p1, p2) ==
    LET lo == IF p2 < p1 THEN p2 ELSE p1
        hi == IF p2 < p1 THEN p1 ELSE p2
    IN  \/ hi - lo = 1
        \/ hi - lo = nx

\* Mutant of is_match: pieces above one another do not match.
is_match_rows_only(nx, p1, p2) ==
    LET lo == IF p2 < p1 THEN p2 ELSE p1
        hi == IF p2 < p1 THEN p1 ELSE p2
    IN  hi - lo = 1 /\ lo % nx # 0

\* is_match, lines 10-17, on 1-indexed row-major ids of a grid nx wide.
is_match(nx, p1, p2) ==
    LET lo == IF p2 < p1 THEN p2 ELSE p1
        hi == IF p2 < p1 THEN p1 ELSE p2
    IN  \/ hi - lo = 1 /\ lo % nx # 0
        \/ hi - lo = nx

\* group_groups lines 22-24: some piece of group1 matches some piece of group2.
GroupsMatch(nx, group1, group2) ==
    \E a \in 1..Len(group1), b \in 1..Len(group2) : is_match(nx, group1[a], group2[b])

\* group_groups lines 20-21: the pairs (i, j) of group positions it scans.
ScannedPairs(pieces_groups) ==
    {ij \in (1..Len(pieces_groups)) \X (1..Len(pieces_groups)) : ij[1] < ij[2]}

\* group_groups, lines 19-28: the first matching pair in scan order is merged
\* (group1.extend(group2), then pieces_groups.remove(group2), which drops the
\* first list equal to group2) and the call returns at once.
group_groups(nx, pieces_groups) ==
    LET hits == {ij \in ScannedPairs(pieces_groups) :
                    GroupsMatch(nx, pieces_groups[ij[1]], pieces_groups[ij[2]])}
    IN  IF hits = {}
        THEN [matched |-> FALSE, pieces_groups |-> pieces_groups]
        ELSE LET ij == CHOOSE h \in hits :
                           \A g \in hits : h[1] < g[1] \/ (h[1] = g[1] /\ h[2] <= g[2])
                 group2   == pieces_groups[ij[2]]
                 extended == [pieces_groups EXCEPT ![ij[1]] = @ \o group2]
             IN  [matched |-> TRUE, pieces_groups |-> ListRemove(extended, group2)]

\* Lines 30-33: group_groups is called until it reports no match.
RECURSIVE GroupUntilStable(_, _)
GroupUntilStable(nx, pieces_groups) ==
    LET r == group_groups(nx, pieces_groups)
    IN  IF r.matched THEN GroupUntilStable(nx, r.pieces_groups) ELSE r.pieces_groups

\* Lines 6-8: one group per piece.
RECURSIVE SingletonGroups(_)
SingletonGroups(pieces) ==
    IF pieces = <<>> THEN <<>>
    ELSE <<(<<Head(pieces)>>)>> \o SingletonGroups(Tail(pieces))

\* The second number the script prints (line 35) for the list `pieces`.
ReachabilityCounter(nx, pieces) ==
    Len(pieces) - Len(GroupUntilStable(nx, SingletonGroups(pieces)))

\* ------------------------------------------------------------------------
\* The piece-order planner of generate_early (__init__.py)
\* ------------------------------------------------------------------------

\* The values of options.piece_order_type compared on lines 99-122.
PieceTypeOrders ==
    {"random_order", "corners_edges_normal", "normal_edges_corners",
     "edges_normal_corners", "corners_normal_edges", "normal_corners_edges",
     "edges_corners_normal"}

\* The values of options.piece_order compared on lines 152-169.
PieceOrders == {"random_order", "every_piece_fits", "least_merges_possible"}

\* Values given to the two strictness options (a percentage, lines 125, 156).
StrictnessValues == {0, 50, 100}

\* Values random() takes, as a percentage: random() is in [0.0, 1.0).
RandomPercents == {0, 50, 99}

\* list(range(a, b)).
RECURSIVE ListRange(_, _)
ListRange(a, b) == IF a >= b THEN <<>> ELSE <<a>> \o ListRange(a + 1, b)

\* [f(i) for i in range(a, b)] with f(i) = base + step * i.
RECURSIVE Affine(_, _, _, _)
Affine(base, step, a, b) ==
    IF a >= b THEN <<>> ELSE <<base + step * a>> \o Affine(base, step, a + 1, b)

\* random.shuffle(list): every order of the list (its elements are distinct).
RECURSIVE Shuffles(_)
Shuffles(S) ==
    IF S = {} THEN {<<>>}
    ELSE UNION {{<<x>> \o rest : rest \in Shuffles(S \ {x})} : x \in S}

\* Line 103.
corners_of(gx, gy) == <<1, gx, gx * (gy - 1) + 1, gx * gy>>

\* Lines 104-107.
edges_of(gx, gy) ==
    Affine(0, 1, 2, gx) \o Affine(gx * (gy - 1), 1, 2, gx)
        \o Affine(1, gx, 1, gy - 1) \o Affine(gx, gx, 1, gy - 1)

\* Line 108.
normal_of(gx, gy) ==
    SelectSeq(ListRange(1, gx * gy + 1),
              LAMBDA i : i \notin Range(corners_of(gx, gy)) /\ i \notin Range(edges_of(gx, gy)))

\* Lines 112-123: the three groups in the order the option names.
grouped(piece_order_type, corners, edges, normal) ==
    CASE piece_order_type = "corners_edges_normal" -> <<corners, edges, normal>>
      [] piece_order_type = "normal_edges_corners" -> <<normal, edges, corners>>
      [] piece_order_type = "edges_normal_corners" -> <<edges, normal, corners>>
      [] piece_order_type = "corners_normal_edges" -> <<corners, normal, edges>>
      [] piece_order_type = "normal_corners_edges" -> <<normal, corners, edges>>
      [] piece_order_type = "edges_corners_normal" -> <<edges, corners, normal>>

\* Line 125: move_pieces = (100 - strictness) / 100, a float.
move_pieces_of(strictness) == float_div(100 - strictness, 100)

\* Mutant of move_percentage: the pieces are copied to to_group and stay in
\* from_group (from_group[0] is read, not popped).
move_percentage_copies(from_group, to_group, strictness) ==
    LET move_count == int_of(float_mul(move_pieces_of(strictness), Len(from_group)))
    IN  [from_group |-> from_group,
         to_group   |-> to_group \o SubSeq(from_group, 1, move_count)]

\* Lines 127-131 with percentage = move_pieces: the first
\* int(len(from_group) * percentage) pieces of from_group go to the end of
\* to_group; the product is a float and int() truncates it.
move_percentage(from_group, to_group, strictness) ==
    LET move_count == int_of(float_mul(move_pieces_of(strictness), Len(from_group)))
    IN  [from_group |-> SubSeq(from_group, move_count + 1, Len(from_group)),
         to_group   |-> to_group \o SubSeq(from_group, 1, move_count)]

\* Lines 133-136: group 3 bleeds into group 2, then group 2 into group 1.
bled(groups, strictness) ==
    LET a == move_percentage(groups[3], groups[2], strictness)
        b == move_percentage(a.to_group, groups[1], strictness)
    IN  <<b.to_group, b.from_group, a.from_group>>

\* A list as the set of its elements.
RECURSIVE SetsOf(_)
SetsOf(groups) ==
    IF groups = <<>> THEN <<>> ELSE <<Range(Head(groups))>> \o SetsOf(Tail(groups))

\* Lines 99-139: the groups the planner loop starts from.  Every group has
\* just been shuffled (lines 138-139) and nothing has read its order yet: it
\* is kept as the set of its pieces, and the order is drawn when the loop
\* reads the list (see PlanPiece).
ShuffledGroups(gx, gy, piece_order_type, strictness) ==
    IF piece_order_type = "random_order"
    THEN {<<Range(ListRange(1, gx * gy + 1))>>}
    ELSE {SetsOf(bled(grouped(piece_order_type, corners, edges, normal), strictness)) :
            corners \in Shuffles(Range(corners_of(gx, gy))),
            edges \in Shuffles(Range(edges_of(gx, gy))),
            normal \in Shuffles(Range(normal_of(gx, gy)))}

\* A scan that takes the head of the list whatever its merges.
every_piece_fits_takes_head(self, pieces, k, first_piece) == pieces[1]

\* Lines 160-166: the first piece of the list that merges with the board (any
\* piece when it is the first one placed), else the head of the list.
RECURSIVE every_piece_fits_from(_, _, _, _)
every_piece_fits_from(self, pieces, k, first_piece) ==
    IF k > Len(pieces) THEN pieces[1]
    ELSE IF first_piece \/ get_merges_from_adding_piece(self, pieces[k] - 1) > 0
         THEN pieces[k]
         ELSE every_piece_fits_from(self, pieces, k + 1, first_piece)

\* Lines 170-184: the scan of the least-merges strategy; returns best_piece
\* and best_result.
RECURSIVE least_merges_from(_, _, _, _, _, _, _)
least_merges_from(self, pieces, k, first_piece, best_result_ever, best_piece, best_result) ==
    IF k > Len(pieces) THEN [best_piece |-> best_piece, best_result |-> best_result]
    ELSE LET m == get_merges_from_adding_piece(self, pieces[k] - 1)
         IN  IF first_piece \/ m <= best_result_ever
             THEN [best_piece |-> pieces[k], best_result |-> 0]
             ELSE IF m < best_result
                  THEN least_merges_from(self, pieces, k + 1, first_piece,
                                         best_result_ever, pieces[k], m)
                  ELSE least_merges_from(self, pieces, k + 1, first_piece,
                                         best_result_ever, best_piece, best_result)

\* Lines 152-186: the piece selected from the list `pieces` when random()
\* returned r (as a percentage), and the new best_result_ever.
selected(self, opts, pieces, r, first_piece, best_result_ever) ==
    IF opts.piece_order = "random_order"
    THEN [p |-> pieces[1], best_result_ever |-> best_result_ever]
    ELSE IF opts.strictness_piece_order < r
    THEN [p |-> pieces[1], best_result_ever |-> best_result_ever]
    ELSE IF opts.piece_order = "every_piece_fits"
    THEN [p |-> every_piece_fits_from(self, pieces, 1, first_piece),
          best_result_ever |-> best_result_ever]
    ELSE LET best == least_merges_from(self, pieces, 1, first_piece, best_result_ever, None, 5)
         IN  [p |-> best.best_piece, best_result_ever |-> best.best_result]

\* A classification that sends a piece to the item pool as soon as the
\* merges reach the number of queued items plus the slack.
to_itempool_at_least(board_merges_count, itempool, slack) ==
    board_merges_count >= Len(itempool) + slack

\* Line 192: the piece goes to the item pool.
to_itempool(board_merges_count, itempool, slack) ==
    board_merges_count > Len(itempool) + slack

\* ------------------------------------------------------------------------
\* The progression table of generate_early and the locations of
\* create_regions (__init__.py)
\* ------------------------------------------------------------------------

\* Values given to options.percentage_of_merges_that_are_checks (line 232).
CheckPercentages == {50, 100}

\* Values given to options.maximum_number_of_checks (line 233).
MaximumChecks == {0, 1, 2, 3, 5, 8, 13}

\* Values given to options.percentage_of_extra_pieces (line 229).
ExtraPercentages == {0, 100}

RECURSIVE Gcd(_, _)
Gcd(a, b) == IF b = 0 THEN a ELSE Gcd(b, a % b)

\* The order 1, 1 + a, 1 + 2a, ... around the ids 1..n.
RECURSIVE WalkFrom(_, _, _)
WalkFrom(n, a, j) ==
    IF j >= n THEN <<>> ELSE <<1 + ((a * j) % n)>> \o WalkFrom(n, a, j + 1)

\* Orders in which the planner can have selected the n pieces: with
\* piece_order and piece_order_type both random_order it pops the pieces of
\* one shuffled list (lines 100-101, 153), so every order is possible.  The
\* table builder is given the orders that walk around the ids in steps of a,
\* and the orders 1, 2, ..., n-1 with the last piece n pulled forward to the
\* j-th place.
WalkOrders(n) == {WalkFrom(n, a, 0) : a \in {a \in 1..(n - 1) : Gcd(a, n) = 1}}

PulledOrders(n) ==
    {ListRange(1, j) \o <<n>> \o ListRange(j, n) : j \in 1..(n - 1)}

TableOrders(n) == WalkOrders(n) \cup PulledOrders(n)

\* Lines 191-197 over the pieces of `order` from the k-th on: the plans
\* (with their boards) after classifying and adding each piece.
RECURSIVE PlanFrom(_, _, _, _)
PlanFrom(plans, order, k, slack) ==
    IF k > Len(order) THEN plans
    ELSE PlanFrom(
           UNION {{[self |-> out,
                    precollected_pieces |->
                        IF to_itempool(pl.self.merges_count, pl.itempool_pieces, slack)
                        THEN pl.precollected_pieces
                        ELSE Append(pl.precollected_pieces, order[k]),
                    itempool_pieces |->
                        IF to_itempool(pl.self.merges_count, pl.itempool_pieces, slack)
                        THEN Append(pl.itempool_pieces, order[k])
                        ELSE pl.itempool_pieces]
                   : out \in add_piece(pl.self, order[k] - 1)} : pl \in plans},
           order, k + 1, slack)

\* The two lists the planner leaves when it selects the pieces in `order`.
PlansOf(gx, gy, order, slack) ==
    {[precollected_pieces |-> pl.precollected_pieces, itempool_pieces |-> pl.itempool_pieces] :
        pl \in PlanFrom({[self |-> PuzzleBoard(gx, gy), precollected_pieces |-> <<>>,
                          itempool_pieces |-> <<>>]}, order, 1, slack)}

\* Lines 210-213 and 218-221: the entry appended to possible_merges for the
\* piece at index c of its list.
\* An entry that keeps the full count for the last ten pieces of the list.
merges_entry_last_ten(merges, itempool, c, slack) ==
    IF Len(itempool) - c <= 10 THEN merges ELSE merges - slack

\* An entry with the slack subtracted for every piece, the last ones too.
merges_entry_always_slack(merges, itempool, c, slack) == merges - slack

merges_entry(merges, itempool, c, slack) ==
    IF Len(itempool) - c < 10 THEN merges ELSE merges - slack

\* Line 226: next(index for index, value in enumerate(possible_merges) if
\* value >= i); None stands for StopIteration.
RECURSIVE first_index_above(_, _, _)
RECURSIVE first_index_from(_, _, _)
\* A search that asks for a value above i instead of one reaching i.
first_index_above(list, index, i) ==
    IF index >= Len(list) THEN None
    ELSE IF At(list, index) > i THEN index
    ELSE first_index_above(list, index + 1, i)

first_index_from(list, index, i) ==
    IF index >= Len(list) THEN None
    ELSE IF At(list, index) >= i THEN index
    ELSE first_index_from(list, index + 1, i)

\* Lines 224-226, and again lines 403-405: pieces_needed_per_merge built from
\* the table `list` for the merges i..n-1, after the entries acc; the build
\* stops with what it has when next() raises StopIteration.
RECURSIVE needed_per_merge_from(_, _, _, _)
needed_per_merge_from(list, n, i, acc) ==
    IF i >= n THEN [pieces_needed_per_merge |-> acc, raised |-> NoError]
    ELSE LET index == first_index_from(list, 0, i)
         IN  IF index = None
             THEN [pieces_needed_per_merge |-> acc, raised |-> "StopIteration"]
             ELSE needed_per_merge_from(list, n, i + 1, Append(acc, index))

\* min(j, cap) for j in range(from, n).
RECURSIVE Capped(_, _, _)
Capped(from, n, cap) ==
    IF from >= n THEN <<>> ELSE <<Min(from, cap)>> \o Capped(from + 1, n, cap)

\* Values of slot_data["possible_merges"] that interpret_slot_data is handed
\* for a world of n pieces whose own table is `own`: the slot data is what
\* fill_slot_data (line 397) of the world of that slot stored, which is the
\* table of this very world, or of another generation of the slot, such as
\* the one that places the pieces row by row (every piece after the first
\* merges once: -slack, 0, 1, ..., n - 1); and, the payload being taken as
\* it comes, tables whose merges stop at 0 or at 1, as a world of another
\* grid stores them.
SlotDataTables(own, n, slack) ==
    {own} \cup {<<-slack>> \o Capped(0, n, cap) : cap \in {0, 1, n - 1}}

\* Line 229: math.ceil(len(itempool_pieces) * (1 + percentage / 100)), in
\* float arithmetic.
pieces_left_of(itempool, percentage_of_extra_pieces) ==
    math_ceil(float_mul(float_add(1, float_div(percentage_of_extra_pieces, 100)),
                        Len(itempool)))

\* Lines 231-234: min(int(percentage / 100 * (npieces - 2)), maximum), the
\* product in float arithmetic.
number_of_locations_of(npieces, percentage, maximum) ==
    Min(int_of(float_mul(float_div(percentage, 100), npieces - 2)), maximum)

\* Lines 243-246.
min_pieces_per_location_of(pieces_left, locations) ==
    IF locations > 0 THEN (pieces_left + locations - 1) \div locations ELSE 1

\* A run of item locations computed from locs instead of locs - 1.
in_a_row_rounded_up(locs_left, items_left) ==
    IF locs_left > items_left THEN locs_left \div (locs_left - items_left) ELSE locs_left

\* Lines 285-289: in_a_row and not_in_a_row of one round of the spreading loop.
in_a_row_of(locs_left, items_left) ==
    IF locs_left > items_left THEN (locs_left - 1) \div (locs_left - items_left) ELSE locs_left

not_in_a_row_of(locs_left, items_left) ==
    IF locs_left > items_left
    THEN Max(1, (locs_left - items_left) \div (items_left + 1))
    ELSE 0

\* Lines 307-308.
item_loc_candidates(item_locs, i) == SelectSeq(item_locs, LAMBDA loc : loc > i)
filler_loc_candidates(filler_locs, i) == SelectSeq(filler_locs, LAMBDA loc : loc <= i)

\* A swap that leaves both lists as they were.
swapped_nothing(item_locs, filler_locs, chosen_item_loc, chosen_filler_loc) ==
    [item_locations |-> item_locs, filler_locations |-> filler_locs]

\* Lines 311-312, 315-316, 320-321: the two lists after the swap.
swapped(item_locs, filler_locs, chosen_item_loc, chosen_filler_loc) ==
    [item_locations   |-> Sorted(Append(ListRemove(item_locs, chosen_item_loc),
                                        chosen_filler_loc)),
     filler_locations |-> Sorted(ListRemove(Append(filler_locs, chosen_item_loc),
                                            chosen_filler_loc))]

\* ------------------------------------------------------------------------
\* State
\* ------------------------------------------------------------------------

VARIABLES
    \* a PuzzleBoard and its callers
    width, height,      \* the arguments of PuzzleBoard(width, height)
    board,              \* self.board: cell -> cluster id or None
    adjacent_pieces,    \* self.adjacent_pieces
    merges_count,       \* self.merges_count
    clusters,           \* self.clusters: cluster id -> list of cells
    unused_ids,         \* self._unused_ids, a stack (pop takes the last)
    raised,             \* the exception that ended the run, or NoError
    last,               \* the most recent call on the board
    prev,               \* the call before it, kept when it was on the same cell
    hist,               \* the add_piece calls made so far, while nothing else
                        \* has changed the board since its construction
    \* the testlogic.py script
    nx, ny,             \* the grid of the script
    pieces,             \* the list of piece ids
    pieces_groups,      \* the list of groups
    pc,                 \* where the script is: "loop", "print", "done", "off";
                        \* where the generation is: "plan", "planned", "replay",
                        \* "needed", "counted", "spread", "repair", "done",
                        \* "interpreted"
    printed,            \* what line 35 printed
    \* generate_early
    options,            \* self.options: the options the planner reads
    group,              \* the position of `for pieces in pieces_groups`
    first_piece,        \* first_piece
    best_result_ever,   \* best_result_ever
    precollected_pieces, \* self.precollected_pieces
    itempool_pieces,    \* self.itempool_pieces
    possible_merges,    \* self.possible_merges
    pieces_needed_per_merge, \* self.pieces_needed_per_merge
    number_of_locations, \* self.number_of_locations
    min_pieces_per_location, \* self.min_pieces_per_location
    \* create_regions
    item_locations,     \* item_locations
    filler_locations,   \* filler_locations
    ii,                 \* the loop variable i of lines 225, 283 and 301
    locs,               \* locs
    items,              \* items
    do_again,           \* do_again
    num_pieces          \* num_pieces

boardVars == <<width, height, board, adjacent_pieces, merges_count, clusters,
               unused_ids, raised, last, prev, hist>>

scriptVars == <<nx, ny, pieces, pieces_groups, pc, printed>>

planVars == <<options, group, first_piece, best_result_ever,
              precollected_pieces, itempool_pieces>>

tableVars == <<possible_merges, pieces_needed_per_merge, number_of_locations,
               min_pieces_per_location, item_locations, filler_locations, ii, locs,
               items, do_again, num_pieces>>

genVars == <<planVars, tableVars>>

vars == <<boardVars, scriptVars, genVars>>

\* ------------------------------------------------------------------------
\* Spec: a PuzzleBoard and its callers
\* ------------------------------------------------------------------------

\* The board object assembled from its fields.
Self ==
    [ unused_ids |-> unused_ids, board |-> board, adjacent_pieces |-> adjacent_pieces,
      merges_count |-> merges_count, clusters |-> clusters, raised |-> raised ]

Cells == DOMAIN board

\* The cells that hold a piece.
Placed == {i \in Cells : board[i] # None}

\* A call record: the operation, its argument, what it returned (None when it
\* returns nothing) and merges_count / the placed cells before the call.
Call(op, piece, ret) ==
    [op |-> op, piece |-> piece, ret |-> ret, merges |-> merges_count, placed |-> Placed]

NoCall == [op |-> "none", piece |-> None, ret |-> None, merges |-> 0, placed |-> {}]

\* The fields of the object after a call returned (or raised) `out`.
Becomes(out) ==
    /\ board' = out.board
    /\ merges_count' = out.merges_count
    /\ clusters' = out.clusters
    /\ unused_ids' = out.unused_ids
    /\ raised' = out.raised
    /\ UNCHANGED <<width, height, adjacent_pieces>>

\* The record of a call that follows `last`.
Recorded(call) ==
    /\ last' = call
    /\ prev' = IF last.piece = call.piece THEN last ELSE NoCall

\* The board object `self` right after construction.
Constructed(self) ==
    /\ board = self.board
    /\ adjacent_pieces = self.adjacent_pieces
    /\ merges_count = self.merges_count
    /\ clusters = self.clusters
    /\ unused_ids = self.unused_ids
    /\ raised = self.raised
    /\ last = NoCall
    /\ prev = NoCall
    /\ hist = [fresh |-> TRUE, calls |-> <<>>]

\* generate_early is not part of this run.
PlannerOff ==
    /\ options = [piece_order_type |-> "random_order", strictness_piece_order_type |-> 100,
                  piece_order |-> "random_order", strictness_piece_order |-> 100,
                  number_of_checks_out_of_logic |-> 0]
    /\ group = 0
    /\ first_piece = TRUE
    /\ best_result_ever = 0
    /\ precollected_pieces = <<>>
    /\ itempool_pieces = <<>>

\* Lines 203-323 are not part of this run.
TableOff ==
    /\ possible_merges = <<>>
    /\ pieces_needed_per_merge = <<>>
    /\ number_of_locations = 0
    /\ min_pieces_per_location = 0
    /\ item_locations = <<>>
    /\ filler_locations = <<>>
    /\ ii = 0
    /\ locs = 0
    /\ items = 0
    /\ do_again = FALSE
    /\ num_pieces = 0

GenOff == PlannerOff /\ TableOff

\* The script is not part of this run.
ScriptOff ==
    /\ nx = 0
    /\ ny = 0
    /\ pieces = <<>>
    /\ pieces_groups = <<>>
    /\ pc = "off"
    /\ printed = <<>>

Init ==
    /\ width \in 1..MaxCells
    /\ height \in 1..MaxCells
    /\ width * height <= MaxCells
    /\ Constructed(PuzzleBoard(width, height))
    /\ ScriptOff
    /\ GenOff

\* board.add_piece(c) on an empty cell.
AddPiece(c) ==
    /\ raised = NoError
    /\ board[c] = None
    /\ \E out \in add_piece(Self, c) :
          /\ Becomes(out)
          /\ hist' = IF hist.fresh
                     THEN [hist EXCEPT !.calls = Append(@, <<c, out.merges_count>>)]
                     ELSE hist
    /\ Recorded(Call("add_piece", c, None))
    /\ UNCHANGED <<scriptVars, genVars>>

\* board.remove_piece(c) on a placed cell.
RemovePiece(c) ==
    /\ raised = NoError
    /\ board[c] # None
    /\ \E out \in remove_piece(Self, c) : Becomes(out)
    /\ Recorded(Call("remove_piece", c, None))
    /\ hist' = [fresh |-> FALSE, calls |-> <<>>]
    /\ UNCHANGED <<scriptVars, genVars>>

\* Mutant of GetMerges: the query adds the piece to learn the merges it makes
\* and leaves it on the board.
GetMerges_by_adding(c) ==
    /\ raised = NoError
    /\ board[c] = None
    /\ \E out \in add_piece(Self, c) :
          /\ Becomes(out)
          /\ Recorded(Call("get_merges_from_adding_piece", c,
                           out.merges_count - merges_count))
    /\ UNCHANGED hist
    /\ UNCHANGED <<scriptVars, genVars>>

\* board.get_merges_from_adding_piece(c) on an empty cell.
GetMerges(c) ==
    /\ raised = NoError
    /\ board[c] = None
    /\ Recorded(Call("get_merges_from_adding_piece", c, get_merges_from_adding_piece(Self, c)))
    /\ UNCHANGED <<width, height, board, adjacent_pieces, merges_count, clusters,
                   unused_ids, raised, hist>>
    /\ UNCHANGED <<scriptVars, genVars>>

Next ==
    \/ \E c \in Cells : AddPiece(c)
    \/ \E c \in Cells : RemovePiece(c)
    \/ \E c \in Cells : GetMerges(c)

Spec == Init /\ [][Next]_vars

\* ------------------------------------------------------------------------
\* SpecCounter: the testlogic.py script
\* ------------------------------------------------------------------------

\* The lists of at most n distinct ids out of S.
DistinctLists(S, n) ==
    UNION {{s \in [1..k -> S] : \A i, j \in 1..k : s[i] = s[j] => i = j} : k \in 0..n}

\* No PuzzleBoard call is part of this run.
BoardOff ==
    /\ width = script_nx
    /\ height = script_ny
    /\ Constructed(PuzzleBoard(width, height))

\* Lines 1-8.
InitCounter ==
    /\ nx = script_nx
    /\ ny = script_ny
    /\ pieces \in DistinctLists(1..(nx * ny), MaxPieces)
    /\ pieces_groups = SingletonGroups(pieces)
    /\ pc = "loop"
    /\ printed = <<>>
    /\ BoardOff
    /\ GenOff

\* Lines 30-33: one round of the while loop.
GroupRound ==
    /\ pc = "loop"
    /\ LET r == group_groups(nx, pieces_groups)
       IN  /\ pieces_groups' = r.pieces_groups
           /\ pc' = IF r.matched THEN "loop" ELSE "print"
    /\ UNCHANGED <<nx, ny, pieces, printed>>
    /\ UNCHANGED <<boardVars, genVars>>

\* Line 35.
PrintResult ==
    /\ pc = "print"
    /\ printed' = <<Len(pieces_groups), Len(pieces) - Len(pieces_groups)>>
    /\ pc' = "done"
    /\ UNCHANGED <<nx, ny, pieces, pieces_groups>>
    /\ UNCHANGED <<boardVars, genVars>>

NextCounter == GroupRound \/ PrintResult

SpecCounter == InitCounter /\ [][NextCounter]_vars

\* ------------------------------------------------------------------------
\* SpecMisuse: a PuzzleBoard whose caller breaks the contract of a method
\* ------------------------------------------------------------------------

\* The last call broke the contract of its method: add_piece on a cell that
\* held a piece, or remove_piece on a cell that held none.
Misused ==
    \/ last.op = "add_piece" /\ last.piece \in last.placed
    \/ last.op = "remove_piece" /\ last.piece \notin last.placed

InitMisuse ==
    /\ width \in 1..MaxCellsMisused
    /\ height \in 1..MaxCellsMisused
    /\ width * height <= MaxCellsMisused
    /\ Constructed(PuzzleBoard(width, height))
    /\ ScriptOff
    /\ GenOff

\* board.add_piece(c) on a cell that already holds a piece.  add_piece has no
\* check of its own (lines 88-150): the same statements run.
AddPiece_occupied(c) ==
    /\ raised = NoError
    /\ board[c] # None
    /\ \E out \in add_piece(Self, c) : Becomes(out)
    /\ Recorded(Call("add_piece", c, None))
    /\ hist' = [fresh |-> FALSE, calls |-> <<>>]
    /\ UNCHANGED <<scriptVars, genVars>>

\* board.remove_piece(c) on a cell that holds no piece: the assert of line 174.
RemovePiece_empty(c) ==
    /\ raised = NoError
    /\ board[c] = None
    /\ \E out \in remove_piece(Self, c) : Becomes(out)
    /\ Recorded(Call("remove_piece", c, None))
    /\ hist' = [fresh |-> FALSE, calls |-> <<>>]
    /\ UNCHANGED <<scriptVars, genVars>>

\* The run is followed up to and including the first call that breaks a
\* contract.
NextMisuse ==
    /\ ~Misused
    /\ \/ \E c \in Cells : AddPiece(c)
       \/ \E c \in Cells : RemovePiece(c)
       \/ \E c \in Cells : AddPiece_occupied(c)
       \/ \E c \in Cells : RemovePiece_empty(c)

SpecMisuse == InitMisuse /\ [][NextMisuse]_vars

\* ------------------------------------------------------------------------
\* SpecPlanner: the planner loop of generate_early (lines 99-199)
\* ------------------------------------------------------------------------

\* The options read by lines 99-199.  An option that the chosen path never
\* reads is left at 100.
PlannerOptions ==
    {o \in [piece_order_type : PieceTypeOrders,
            strictness_piece_order_type : StrictnessValues,
            piece_order : PieceOrders,
            strictness_piece_order : StrictnessValues,
            number_of_checks_out_of_logic : 0..MaxSlack] :
        /\ o.piece_order_type = "random_order" => o.strictness_piece_order_type = 100
        /\ o.piece_order = "random_order" => o.strictness_piece_order = 100}

\* Lines 95-146: the state in which the planner loop starts.
InitPlanner ==
    /\ nx \in 2..MaxPlanCells
    /\ ny \in 2..MaxPlanCells
    /\ nx * ny <= MaxPlanCells
    /\ options \in PlannerOptions
    /\ pieces_groups \in ShuffledGroups(nx, ny, options.piece_order_type,
                                        options.strictness_piece_order_type)
    /\ width = nx
    /\ height = ny
    /\ Constructed(PuzzleBoard(nx, ny))
    /\ precollected_pieces = <<>>
    /\ itempool_pieces = <<>>
    /\ first_piece = TRUE
    /\ group = 1
    /\ best_result_ever = 0
    /\ pieces = <<>>
    /\ pc = "plan"
    /\ printed = <<>>
    /\ TableOff

\* Lines 149-199: one iteration of `while pieces`.  `order` is the order the
\* last shuffle left the list in and r is what random() returns; the pieces
\* that stay are shuffled again or keep an order nothing has read.
PlanPiece ==
    /\ pc = "plan"
    /\ raised = NoError
    /\ group <= Len(pieces_groups)
    /\ pieces_groups[group] # {}
    /\ \E order \in Shuffles(pieces_groups[group]), r \in RandomPercents :
          LET sel == selected(Self, options, order, r, first_piece, best_result_ever)
              p   == sel.p
          IN  /\ best_result_ever' = sel.best_result_ever
              /\ pieces_groups' = [pieces_groups EXCEPT ![group] = @ \ {p}]
              /\ IF to_itempool(merges_count, itempool_pieces,
                                options.number_of_checks_out_of_logic)
                 THEN /\ itempool_pieces' = Append(itempool_pieces, p)
                      /\ UNCHANGED precollected_pieces
                 ELSE /\ precollected_pieces' = Append(precollected_pieces, p)
                      /\ UNCHANGED itempool_pieces
              /\ \E out \in add_piece(Self, p - 1) :
                    /\ Becomes(out)
                    /\ hist' = [hist EXCEPT !.calls = Append(@, <<p - 1, out.merges_count>>)]
              /\ Recorded(Call("add_piece", p - 1, None))
    /\ first_piece' = FALSE
    /\ UNCHANGED <<nx, ny, pieces, pc, printed, options, group>>
    /\ UNCHANGED tableVars

\* Lines 147-148: the group is empty; the for loop goes to the next group,
\* or ends after the last.
NextGroup ==
    /\ pc = "plan"
    /\ raised = NoError
    /\ group <= Len(pieces_groups)
    /\ pieces_groups[group] = {}
    /\ group' = group + 1
    /\ best_result_ever' = IF group < Len(pieces_groups) THEN 0 ELSE best_result_ever
    /\ pc' = IF group < Len(pieces_groups) THEN "plan" ELSE "planned"
    /\ UNCHANGED <<nx, ny, pieces, pieces_groups, printed, options, first_piece,
                   precollected_pieces, itempool_pieces>>
    /\ UNCHANGED boardVars
    /\ UNCHANGED tableVars

NextPlanner == PlanPiece \/ NextGroup

SpecPlanner == InitPlanner /\ [][NextPlanner]_vars

\* ------------------------------------------------------------------------
\* SpecLeastMerges: the planner loop under the least-merges-possible
\* strategy with strictness 100, on grids of up to MaxLeastCells cells
\* ------------------------------------------------------------------------

\* The options of a strict least-merges run; the groups are not bled.
LeastMergesOptions ==
    {o \in PlannerOptions :
        /\ o.piece_order = "least_merges_possible"
        /\ o.strictness_piece_order = 100
        /\ o.strictness_piece_order_type = 100}

\* Lines 95-146, as InitPlanner, for those options.
InitLeastMerges ==
    /\ nx \in 2..MaxLeastCells
    /\ ny \in 2..MaxLeastCells
    /\ nx * ny <= MaxLeastCells
    /\ options \in LeastMergesOptions
    /\ pieces_groups \in ShuffledGroups(nx, ny, options.piece_order_type,
                                        options.strictness_piece_order_type)
    /\ width = nx
    /\ height = ny
    /\ Constructed(PuzzleBoard(nx, ny))
    /\ precollected_pieces = <<>>
    /\ itempool_pieces = <<>>
    /\ first_piece = TRUE
    /\ group = 1
    /\ best_result_ever = 0
    /\ pieces = <<>>
    /\ pc = "plan"
    /\ printed = <<>>
    /\ TableOff

SpecLeastMerges == InitLeastMerges /\ [][NextPlanner]_vars

\* ------------------------------------------------------------------------
\* SpecTable: possible_merges, pieces_needed_per_merge (lines 203-249), the
\* item and filler locations of create_regions (lines 275-323) and
\* interpret_slot_data (lines 401-405)
\* ------------------------------------------------------------------------

\* The options read by lines 203-249.
TableOptions ==
    [number_of_checks_out_of_logic : 0..MaxSlack,
     percentage_of_merges_that_are_checks : CheckPercentages,
     maximum_number_of_checks : MaximumChecks,
     percentage_of_extra_pieces : ExtraPercentages]

npieces == nx * ny

\* Lines 203-205: the planner has left its two lists; possible_merges starts
\* with minus the slack and the board is a fresh PuzzleBoard.
InitTable ==
    /\ nx \in 2..MaxTableCells
    /\ ny \in 2..MaxTableCells
    /\ nx * ny <= MaxTableCells
    /\ options \in TableOptions
    /\ \E order \in TableOrders(nx * ny) :
          \E plan \in PlansOf(nx, ny, order, options.number_of_checks_out_of_logic) :
             /\ precollected_pieces = plan.precollected_pieces
             /\ itempool_pieces = plan.itempool_pieces
    /\ possible_merges = <<-options.number_of_checks_out_of_logic>>
    /\ width = nx
    /\ height = ny
    /\ Constructed(PuzzleBoard(nx, ny))
    /\ pieces_groups = <<>>
    /\ group = 0
    /\ first_piece = FALSE
    /\ best_result_ever = 0
    /\ pieces = <<>>
    /\ printed = <<>>
    /\ pieces_needed_per_merge = <<>>
    /\ number_of_locations = 0
    /\ min_pieces_per_location = 0
    /\ item_locations = <<>>
    /\ filler_locations = <<>>
    /\ ii = 0
    /\ locs = 0
    /\ items = 0
    /\ do_again = FALSE
    /\ num_pieces = 0
    /\ pc = "replay"

\* The variables the table builder and create_regions never assign.
tableFixed == <<nx, ny, pieces, pieces_groups, printed, options, group, first_piece,
                best_result_ever, precollected_pieces, itempool_pieces>>

\* board.add_piece(p - 1) on the fresh board, and the entry for piece p, which
\* has index c in its list.
Replayed(p, c) ==
    /\ \E out \in add_piece(Self, p - 1) :
          /\ Becomes(out)
          /\ hist' = [hist EXCEPT !.calls = Append(@, <<p - 1, out.merges_count>>)]
          /\ possible_merges' =
                IF out.raised # NoError THEN possible_merges
                ELSE Append(possible_merges,
                            merges_entry(out.merges_count, itempool_pieces, c,
                                         options.number_of_checks_out_of_logic))
    /\ Recorded(Call("add_piece", p - 1, None))

\* Lines 207-214: one iteration of the loop over precollected_pieces.
ReplayPrecollected ==
    /\ pc = "replay"
    /\ raised = NoError
    /\ Len(possible_merges) - 1 < Len(precollected_pieces)
    /\ LET c == Len(possible_merges) - 1
       IN  Replayed(At(precollected_pieces, c), c)
    /\ UNCHANGED <<pc, pieces_needed_per_merge, number_of_locations,
                   min_pieces_per_location, item_locations, filler_locations, ii, locs,
                   items, do_again, num_pieces>>
    /\ UNCHANGED tableFixed

\* Lines 215-222: one iteration of the loop over itempool_pieces.
ReplayItempool ==
    /\ pc = "replay"
    /\ raised = NoError
    /\ Len(possible_merges) - 1 >= Len(precollected_pieces)
    /\ Len(possible_merges) - 1 < Len(precollected_pieces) + Len(itempool_pieces)
    /\ LET c == Len(possible_merges) - 1 - Len(precollected_pieces)
       IN  Replayed(At(itempool_pieces, c), c)
    /\ UNCHANGED <<pc, pieces_needed_per_merge, number_of_locations,
                   min_pieces_per_location, item_locations, filler_locations, ii, locs,
                   items, do_again, num_pieces>>
    /\ UNCHANGED tableFixed

\* Line 224, after both loops.
StartNeeded ==
    /\ pc = "replay"
    /\ raised = NoError
    /\ Len(possible_merges) - 1 = Len(precollected_pieces) + Len(itempool_pieces)
    /\ pieces_needed_per_merge' = <<0>>
    /\ ii' = 1
    /\ pc' = "needed"
    /\ UNCHANGED <<possible_merges, number_of_locations, min_pieces_per_location,
                   item_locations, filler_locations, locs, items, do_again, num_pieces>>
    /\ UNCHANGED boardVars
    /\ UNCHANGED tableFixed

\* Lines 225-226: one iteration; next() raises StopIteration when no entry of
\* possible_merges reaches i.
NeededPerMerge ==
    /\ pc = "needed"
    /\ raised = NoError
    /\ ii < npieces
    /\ LET index == first_index_from(possible_merges, 0, ii)
       IN  IF index = None
           THEN /\ raised' = "StopIteration"
                /\ UNCHANGED <<pieces_needed_per_merge, ii>>
           ELSE /\ pieces_needed_per_merge' = Append(pieces_needed_per_merge, index)
                /\ ii' = ii + 1
                /\ UNCHANGED raised
    /\ UNCHANGED <<pc, possible_merges, number_of_locations, min_pieces_per_location,
                   item_locations, filler_locations, locs, items, do_again, num_pieces>>
    /\ UNCHANGED <<width, height, board, adjacent_pieces, merges_count, clusters,
                   unused_ids, last, prev, hist>>
    /\ UNCHANGED tableFixed

\* Lines 229-249: the end of generate_early (lines 251-264 fill pool_pieces
\* and the start inventory, which nothing here reads); generate_early then
\* returns to the framework.
CountLocations ==
    /\ pc = "needed"
    /\ raised = NoError
    /\ ii >= npieces
    /\ LET pieces_left == pieces_left_of(itempool_pieces, options.percentage_of_extra_pieces)
           locations   == number_of_locations_of(npieces,
                              options.percentage_of_merges_that_are_checks,
                              options.maximum_number_of_checks)
           per_location == min_pieces_per_location_of(pieces_left, locations)
       IN  /\ number_of_locations' = locations
           /\ min_pieces_per_location' = per_location
           /\ IF per_location > 500
              THEN /\ raised' = "RuntimeError"
                   /\ UNCHANGED pc
              ELSE /\ pc' = "counted"
                   /\ UNCHANGED raised
    /\ UNCHANGED <<possible_merges, pieces_needed_per_merge, item_locations,
                   filler_locations, ii, locs, items, do_again, num_pieces>>
    /\ UNCHANGED <<width, height, board, adjacent_pieces, merges_count, clusters,
                   unused_ids, last, prev, hist>>
    /\ UNCHANGED tableFixed

\* Lines 275-283: the framework calls create_regions, which sets up the
\* spreading loop.
StartSpread ==
    /\ pc = "counted"
    /\ raised = NoError
    /\ items' = number_of_locations
    /\ locs' = (npieces - 1) - 1
    /\ item_locations' = <<>>
    /\ filler_locations' = <<>>
    /\ ii' = 1
    /\ pc' = "spread"
    /\ UNCHANGED <<possible_merges, pieces_needed_per_merge, number_of_locations,
                   min_pieces_per_location, do_again, num_pieces>>
    /\ UNCHANGED boardVars
    /\ UNCHANGED tableFixed

\* Lines 284-294: one round of the spreading loop.
Spread ==
    /\ pc = "spread"
    /\ raised = NoError
    /\ ii < npieces - 1
    /\ LET in_a_row     == in_a_row_of(locs, items)
           not_in_a_row == not_in_a_row_of(locs, items)
       IN  /\ item_locations' = item_locations \o Affine(ii, 1, 0, in_a_row)
           /\ filler_locations' = filler_locations \o Affine(ii + in_a_row, 1, 0, not_in_a_row)
           /\ ii' = ii + in_a_row + not_in_a_row
           /\ locs' = locs - (in_a_row + not_in_a_row)
           /\ items' = items - in_a_row
    /\ UNCHANGED <<pc, possible_merges, pieces_needed_per_merge, number_of_locations,
                   min_pieces_per_location, do_again, num_pieces>>
    /\ UNCHANGED boardVars
    /\ UNCHANGED tableFixed

\* Lines 296-300: the spreading loop is over and do_again is True (line 296),
\* or a pass of the for loop is over and it set do_again; a new pass starts.
StartPass ==
    /\ raised = NoError
    /\ \/ pc = "spread" /\ ii >= npieces - 1
       \/ pc = "repair" /\ ii >= npieces - 1 /\ do_again
    /\ num_pieces' = Len(precollected_pieces)
    /\ do_again' = FALSE
    /\ ii' = 1
    /\ pc' = "repair"
    /\ UNCHANGED <<possible_merges, pieces_needed_per_merge, number_of_locations,
                   min_pieces_per_location, item_locations, filler_locations, locs, items>>
    /\ UNCHANGED boardVars
    /\ UNCHANGED tableFixed

\* An iteration that counts the pieces of an item location and never finds the
\* milestone deficient.
RepairStep_never_deficient ==
    /\ pc = "repair"
    /\ raised = NoError
    /\ ii < npieces - 1
    /\ num_pieces' = IF ii \in Range(item_locations)
                     THEN num_pieces + min_pieces_per_location
                     ELSE num_pieces
    /\ ii' = ii + 1
    /\ UNCHANGED <<do_again, item_locations, filler_locations, raised>>
    /\ UNCHANGED <<pc, possible_merges, pieces_needed_per_merge, number_of_locations,
                   min_pieces_per_location, locs, items>>
    /\ UNCHANGED <<width, height, board, adjacent_pieces, merges_count, clusters,
                   unused_ids, last, prev, hist>>
    /\ UNCHANGED tableFixed

\* Lines 301-323: one iteration of the for loop of a pass.  random.choice
\* returns any of the candidates.
RepairStep ==
    /\ pc = "repair"
    /\ raised = NoError
    /\ ii < npieces - 1
    /\ LET collected == IF ii \in Range(item_locations)
                        THEN num_pieces + min_pieces_per_location
                        ELSE num_pieces
           item_cands   == item_loc_candidates(item_locations, ii)
           filler_cands == filler_loc_candidates(filler_locations, ii)
       IN  IF ii = At(possible_merges, Min(npieces, collected))
           THEN /\ do_again' = TRUE
                /\ IF item_cands # <<>> /\ filler_cands # <<>>
                   THEN /\ \E chosen_item_loc \in Range(item_cands),
                              chosen_filler_loc \in Range(filler_cands) :
                             LET new == swapped(item_locations, filler_locations,
                                                chosen_item_loc, chosen_filler_loc)
                             IN  /\ item_locations' = new.item_locations
                                 /\ filler_locations' = new.filler_locations
                        /\ num_pieces' = collected + min_pieces_per_location
                        /\ ii' = ii + 1
                        /\ UNCHANGED raised
                   ELSE /\ raised' = "RuntimeError"
                        /\ num_pieces' = collected
                        /\ UNCHANGED <<item_locations, filler_locations, ii>>
           ELSE /\ num_pieces' = collected
                /\ ii' = ii + 1
                /\ UNCHANGED <<do_again, item_locations, filler_locations, raised>>
    /\ UNCHANGED <<pc, possible_merges, pieces_needed_per_merge, number_of_locations,
                   min_pieces_per_location, locs, items>>
    /\ UNCHANGED <<width, height, board, adjacent_pieces, merges_count, clusters,
                   unused_ids, last, prev, hist>>
    /\ UNCHANGED tableFixed

\* Line 297: a pass is over and do_again is False; the while loop ends.
EndRepair ==
    /\ pc = "repair"
    /\ raised = NoError
    /\ ii >= npieces - 1
    /\ ~do_again
    /\ pc' = "done"
    /\ UNCHANGED <<possible_merges, pieces_needed_per_merge, number_of_locations,
                   min_pieces_per_location, item_locations, filler_locations, ii, locs,
                   items, do_again, num_pieces>>
    /\ UNCHANGED boardVars
    /\ UNCHANGED tableFixed

\* Lines 401-405: interpret_slot_data, which the tracker client calls on a
\* generated world with the slot data of the slot, any number of times.  The
\* table is replaced by the one of the slot data and pieces_needed_per_merge
\* is built again from it; when next() raises StopIteration the list stays
\* as far as it was built.
InterpretSlotData ==
    /\ pc \in {"done", "interpreted"}
    /\ raised = NoError
    /\ \E table \in SlotDataTables(possible_merges, npieces,
                                   options.number_of_checks_out_of_logic) :
          LET built == needed_per_merge_from(table, npieces, 1, <<0>>)
          IN  /\ possible_merges' = table
              /\ pieces_needed_per_merge' = built.pieces_needed_per_merge
              /\ raised' = built.raised
    /\ pc' = "interpreted"
    /\ UNCHANGED <<number_of_locations, min_pieces_per_location, item_locations,
                   filler_locations, ii, locs, items, do_again, num_pieces>>
    /\ UNCHANGED <<width, height, board, adjacent_pieces, merges_count, clusters,
                   unused_ids, last, prev, hist>>
    /\ UNCHANGED tableFixed

NextTable ==
    \/ ReplayPrecollected
    \/ ReplayItempool
    \/ StartNeeded
    \/ NeededPerMerge
    \/ CountLocations
    \/ StartSpread
    \/ Spread
    \/ StartPass
    \/ RepairStep
    \/ EndRepair
    \/ InterpretSlotData

\* A step of the repair loop (lines 296-323).
RepairLoop == StartPass \/ RepairStep \/ EndRepair

SpecTable == InitTable /\ [][NextTable]_vars

\* The statements of the repair loop run one after the other without
\* waiting for anything: a step of the loop that can be taken is taken.
\* Nothing is assumed of when the framework calls create_regions, or of the
\* tracker client calling interpret_slot_data.
SpecTableFair == SpecTable /\ WF_vars(RepairLoop)

\* ------------------------------------------------------------------------
\* Notions the claims are stated in (defined from the grid, not from the code)
\* ------------------------------------------------------------------------

Abs(n) == IF n < 0 THEN -n ELSE n

\* Cells a and b of a row-major grid w wide are 4-neighbours.
Adjacent4(w, a, b) ==
    Abs((a % w) - (b % w)) + Abs((a \div w) - (b \div w)) = 1

\* The cells of S connected to the cells of `front`.
RECURSIVE Connected(_, _, _)
Connected(w, S, front) ==
    LET more == front \cup {b \in S : \E a \in front : Adjacent4(w, a, b)}
    IN  IF more = front THEN front ELSE Connected(w, S, more)

\* The connected components of the set S of cells.
Components(w, S) == {Connected(w, S, {c}) : c \in S}

\* The cells of a set in ascending order.
RECURSIVE Ascending(_)
Ascending(S) ==
    IF S = {} THEN <<>>
    ELSE LET m == CHOOSE x \in S : \A y \in S : x <= y
         IN  <<m>> \o Ascending(S \ {m})

\* A list of cells as 1-indexed piece ids.
RECURSIVE PieceIds(_)
PieceIds(cells) ==
    IF cells = <<>> THEN <<>> ELSE <<Head(cells) + 1>> \o PieceIds(Tail(cells))

\* The k-th entries of a list of tuples.
RECURSIVE Column(_, _)
Column(rows, k) ==
    IF rows = <<>> THEN <<>> ELSE <<Head(rows)[k]>> \o Column(Tail(rows), k)

\* The cells given to add_piece so far, in call order.
AddedCells == Column(hist.calls, 1)

\* merges_count after each of these calls.
MergesAfterEach == Column(hist.calls, 2)

\* The pool capacity: ceil(width * height / 2).
PoolCapacity == (width * height + 1) \div 2

NoDuplicates(s) == \A i, j \in 1..Len(s) : s[i] = s[j] => i = j

IsAdd == last.op = "add_piece"
IsRemove == last.op = "remove_piece"
IsQuery == last.op = "get_merges_from_adding_piece"

\* ------------------------------------------------------------------------
\* Claims
\* ------------------------------------------------------------------------

\* C1: after every add_piece call of a run that only adds pieces (to distinct
\* cells of a fresh board), merges_count is the number of placed pieces minus
\* the number of connected components of the placed pieces.
C1_MergesIsPiecesMinusComponents ==
    hist.fresh =>
        /\ Placed = Range(AddedCells)
        /\ merges_count = Cardinality(Placed) - Cardinality(Components(width, Placed))

\* C1 witness: an add-only run whose last call joined three clusters.
C1_Witness ==
    /\ hist.fresh
    /\ IsAdd
    /\ merges_count - last.merges = 3
    /\ Cardinality(Placed) >= 4

\* C2: for the pieces added to a fresh board in any order, the flood-fill
\* counter of testlogic.py (given the pieces in that same order, or in
\* ascending order) returns the board's merges_count.
C2_CounterAgreesWithBoard ==
    hist.fresh =>
        /\ ReachabilityCounter(width, PieceIds(AddedCells)) = merges_count
        /\ ReachabilityCounter(width, PieceIds(Ascending(Placed))) = merges_count

\* C2 witness: pieces added out of order that make two groups, one of them
\* spanning two rows and reaching the end of a row.
C2_Witness ==
    /\ hist.fresh
    /\ width = 3 /\ height = 2
    /\ AddedCells = <<5, 0, 2, 3>>
    /\ merges_count = 2

\* C3: remove_piece(c) directly followed by add_piece(c) gives back the
\* merges_count and the set of placed cells from before the removal.
C3_RemoveThenAddRestores ==
    (IsAdd /\ prev.op = "remove_piece") =>
        /\ merges_count = prev.merges
        /\ Placed = prev.placed

\* C3 witness: the removal split a cluster and the re-added piece joined the
\* parts again.
C3_Witness ==
    /\ IsAdd /\ prev.op = "remove_piece"
    /\ merges_count - last.merges >= 2
    /\ raised = NoError

\* C4: a remove_piece(c) step empties c, keeps every other piece placed, leaves
\* the other clusters (their ids, lists and board slots) as they were, and
\* leaves merges_count = placed pieces - clusters, the clusters being the
\* connected components of the pieces that remain.
C4_RemoveEffect ==
    /\ [][(last'.op = "remove_piece") =>
            LET c   == last'.piece
                cid == board[c]
            IN  /\ board'[c] = None
                /\ Placed' = Placed \ {c}
                /\ \A k \in (DOMAIN clusters) \ {cid} :
                      /\ k \in DOMAIN clusters'
                      /\ clusters'[k] = clusters[k]
                      /\ \A i \in Range(clusters[k]) : board'[i] = k
                /\ merges_count' = Cardinality(Placed') - Cardinality(DOMAIN clusters')
         ]_vars
    /\ [](IsRemove =>
            {Range(clusters[k]) : k \in DOMAIN clusters} = Components(width, Placed))

\* C4 witness: a removal that split a cluster in two next to another cluster.
C4_Witness ==
    /\ IsRemove
    /\ Cardinality(DOMAIN clusters) = 3
    /\ Cardinality(Components(width, last.placed)) = 2
    /\ raised = NoError

\* C5: the cluster lists partition the placed cells, board[i] names the
\* cluster whose list holds i (None exactly for the cells in no list), and
\* grid-adjacent placed cells are always in the same cluster.
C5_ClustersPartitionPlaced ==
    /\ \A k \in DOMAIN clusters :
          /\ clusters[k] # <<>>
          /\ NoDuplicates(clusters[k])
          /\ \A i \in Range(clusters[k]) : i \in Cells /\ board[i] = k
    /\ \A i \in Cells :
          board[i] # None => board[i] \in DOMAIN clusters /\ i \in Range(clusters[board[i]])
    /\ \A a, b \in Placed : Adjacent4(width, a, b) => board[a] = board[b]

\* C5 witness: after a removal a piece joined several clusters, with another
\* cluster elsewhere on the board.
C5_Witness ==
    /\ ~hist.fresh
    /\ IsAdd
    /\ merges_count - last.merges >= 2
    /\ Cardinality(DOMAIN clusters) >= 2

\* C6: active clusters plus free ids make up the pool capacity, and the free
\* pool lists no id twice and no active id.
C6_PoolConservation ==
    /\ Cardinality(DOMAIN clusters) + Len(unused_ids) = PoolCapacity
    /\ NoDuplicates(unused_ids)
    /\ Range(unused_ids) \cap DOMAIN clusters = {}

\* C6 witness: after a removal, a merge of three clusters gave two ids back
\* to the pool.
C6_Witness ==
    /\ ~hist.fresh
    /\ IsAdd
    /\ merges_count - last.merges = 3
    /\ Len(unused_ids) >= 2

\* C7: the value get_merges_from_adding_piece(c) returns is the number of
\* distinct clusters among the neighbours of c, and an add_piece(c) that
\* directly follows raises merges_count by exactly that value.
C7_QueryPredictsAdd ==
    /\ IsQuery =>
          last.ret = Cardinality({board[b] : b \in {a \in Placed : Adjacent4(width, a, last.piece)}})
    /\ (IsAdd /\ prev.op = "get_merges_from_adding_piece") =>
          merges_count - last.merges = prev.ret

\* C7 witness: a query answered 3 and the piece was then added.
C7_Witness ==
    /\ IsAdd
    /\ prev.op = "get_merges_from_adding_piece"
    /\ prev.ret = 3

\* C8: a get_merges_from_adding_piece step leaves board, clusters, the free
\* ids and merges_count as they were, and a query of the same cell directly
\* after another returns the same value.
C8_QueryIsPure ==
    [][(last'.op = "get_merges_from_adding_piece") =>
         /\ UNCHANGED <<board, clusters, unused_ids, merges_count>>
         /\ (IsQuery /\ last.piece = last'.piece) => last'.ret = last.ret
      ]_vars

\* C8 witness: two queries of the same cell in a row, next to two clusters.
C8_Witness ==
    /\ IsQuery
    /\ prev.op = "get_merges_from_adding_piece"
    /\ last.ret >= 2

\* C9 as stated: on a 2 x 2 grid the order [0, 1, 2, 3] gives the merge counts
\* [0, 1, 1, 2].
C9_AsStated ==
    (hist.fresh /\ width = 2 /\ height = 2 /\ AddedCells = <<0, 1, 2, 3>>) =>
        /\ MergesAfterEach = <<0, 1, 1, 2>>
        /\ merges_count = 2

\* C9 amended: on a 2 x 2 grid the order [0, 1, 2, 3] gives the merge counts
\* [0, 1, 2, 3]: cell 2 lies under cell 0 and joins its cluster, and cell 3
\* touches that one cluster.
C9_TwoByTwoTrace ==
    (hist.fresh /\ width = 2 /\ height = 2 /\ AddedCells = <<0, 1, 2, 3>>) =>
        /\ MergesAfterEach = <<0, 1, 2, 3>>
        /\ merges_count = 3

\* C9 witness: the four cells of the 2 x 2 grid added in the order 0, 1, 2, 3.
C9_Witness ==
    /\ hist.fresh
    /\ width = 2 /\ height = 2
    /\ AddedCells = <<0, 1, 2, 3>>

\* C10 as stated: on the 5 x 5 grid the script prints 3 groups and 0 merges
\* for the pieces [1, 9, 14].
C10_AsStated ==
    (pc = "done" /\ nx = 5 /\ ny = 5 /\ pieces = <<1, 9, 14>>) => printed = <<3, 0>>

\* C10 amended: on the 5 x 5 grid the script prints 2 groups and 1 merge for
\* the pieces [1, 9, 14]: piece 14 lies directly under piece 9.
C10_OneNineFourteen ==
    (pc = "done" /\ nx = 5 /\ ny = 5 /\ pieces = <<1, 9, 14>>) => printed = <<2, 1>>

\* C10 witness: the script finished on the pieces [1, 9, 14].
C10_Witness ==
    /\ pc = "done"
    /\ nx = 5 /\ ny = 5
    /\ pieces = <<1, 9, 14>>
    /\ Len(pieces_groups) < Len(pieces)

\* C11 (as stated): add_piece on a cell that already holds a piece raises an
\* exception and leaves board, clusters, the free ids and merges_count as
\* they were.
C11_AsStated ==
    [][(last'.op = "add_piece" /\ last'.piece \in last'.placed)
         => /\ raised' # NoError
            /\ UNCHANGED <<board, clusters, unused_ids, merges_count>>]_vars

\* C12 (as stated): remove_piece on a cell that holds no piece raises nothing
\* and leaves board, clusters, the free ids and merges_count as they were.
C12_AsStated ==
    [][(last'.op = "remove_piece" /\ last'.piece \notin last'.placed)
         => /\ raised' = NoError
            /\ UNCHANGED <<board, clusters, unused_ids, merges_count>>]_vars

\* C12 (amended): remove_piece on a cell that holds no piece raises
\* AssertionError before anything is modified: board, clusters, the free ids
\* and merges_count are as they were.
C12_RemoveMissingAsserts ==
    [][(last'.op = "remove_piece" /\ last'.piece \notin last'.placed)
         => /\ raised' = "AssertionError"
            /\ UNCHANGED <<board, clusters, unused_ids, merges_count>>]_vars

\* remove_piece was called on an empty cell of a board that holds pieces.
C12_Witness ==
    /\ IsRemove
    /\ last.piece \notin last.placed
    /\ Cardinality(Placed) >= 2
    /\ raised = "AssertionError"

\* remove_piece sets the slots of the whole cluster of the removed piece to
\* None (line 183) before it adds the remaining pieces back: in the step of
\* remove_piece these cells pass through None.
RebuiltByStep(i) ==
    /\ last'.op = "remove_piece"
    /\ board[i] = board[last'.piece]

\* C18 (as stated): no cell goes from one cluster id to a different cluster id
\* without holding None in between.
C18_AsStated ==
    [][\A i \in Cells :
          (board[i] # None /\ board'[i] # None /\ ~RebuiltByStep(i))
             => board'[i] = board[i]]_vars

\* C18 (amended): a cell goes directly from one cluster id to a different one
\* only when add_piece joins two or more clusters next to the new piece: the
\* cell then belongs to an absorbed cluster, which is no larger than the
\* surviving one, and takes the surviving cluster's id together with the new
\* piece.  Every other placed cell keeps its id, apart from the cells
\* remove_piece clears and adds back.
C18_DirectChangeOnlyWhenAbsorbed ==
    [][\A i \in Cells :
          (board[i] # None /\ board'[i] # None /\ ~RebuiltByStep(i)
             /\ board'[i] # board[i])
          => /\ last'.op = "add_piece"
             /\ LET c     == last'.piece
                    found == found_clusters(Self, c)
                IN  /\ Cardinality(found) >= 2
                    /\ board[i] \in found
                    /\ board'[c] \in found
                    /\ board'[i] = board'[c]
                    /\ Len(clusters[board[i]]) <= Len(clusters[board'[c]])]_vars

\* add_piece has just joined two clusters into one of at least four pieces.
C18_Witness ==
    /\ IsAdd
    /\ merges_count - last.merges = 2
    /\ Len(clusters[board[last.piece]]) >= 4

\* The cells of the grid the planner works on.
PlanCells == 0..(nx * ny - 1)

\* The pieces still waiting in the groups.
PiecesLeft == UNION {pieces_groups[k] : k \in 1..Len(pieces_groups)}

\* C13: when the planner loop has finished, precollected_pieces followed by
\* itempool_pieces lists every piece 1..npieces exactly once, and add_piece
\* was called on the planner's board exactly once for every piece.  While the
\* loop runs, the pieces listed so far and the pieces left in the groups
\* split 1..npieces, and the listed pieces are the ones on the board.
C13_PlanIsPermutation ==
    LET plan == precollected_pieces \o itempool_pieces
    IN  /\ raised = NoError
        /\ NoDuplicates(plan)
        /\ Range(plan) \cap PiecesLeft = {}
        /\ Range(plan) \cup PiecesLeft = 1..(nx * ny)
        /\ \A j, k \in 1..Len(pieces_groups) :
              j # k => pieces_groups[j] \cap pieces_groups[k] = {}
        /\ NoDuplicates(AddedCells)
        /\ Range(PieceIds(AddedCells)) = Range(plan)
        /\ Placed = Range(AddedCells)
        /\ pc = "planned" =>
              /\ Len(plan) = nx * ny
              /\ Range(plan) = 1..(nx * ny)
              /\ Len(AddedCells) = nx * ny
              /\ Placed = PlanCells

\* A finished plan of a grid with edge pieces, made by the least-merges
\* strategy over bled groups, with pieces in both lists.
C13_Witness ==
    /\ pc = "planned"
    /\ nx * ny = 6
    /\ options.piece_order = "least_merges_possible"
    /\ options.piece_order_type = "edges_corners_normal"
    /\ options.strictness_piece_order_type = 50
    /\ Len(itempool_pieces) >= 2
    /\ Len(precollected_pieces) >= 2

\* ------------------------------------------------------------------------
\* The progression table
\* ------------------------------------------------------------------------

\* The entries of pieces_needed_per_merge built so far are for merges
\* 0..Len - 1.
NeededBuilt == Len(pieces_needed_per_merge)

\* possible_merges goes down somewhere: the slack is subtracted from an entry
\* that follows one it was not subtracted from.
MergesDip == \E k \in 1..(Len(possible_merges) - 1) : possible_merges[k + 1] < possible_merges[k]

\* C14: pieces_needed_per_merge is non-decreasing in the merge index, and for
\* every k in 0..npieces whose possible_merges[k] is an index of the table,
\* pieces_needed_per_merge[possible_merges[k]] <= k.  It is stated on every
\* state of the build, for the entries built so far.
C14_NeededIsMonotoneInverse ==
    /\ \A m \in 1..(NeededBuilt - 1) :
          pieces_needed_per_merge[m] <= pieces_needed_per_merge[m + 1]
    /\ NeededBuilt > 0 =>
          \A k \in 0..npieces :
             LET m == At(possible_merges, k)
             IN  m \in 0..(NeededBuilt - 1) => At(pieces_needed_per_merge, m) <= k

\* The whole table is built from a possible_merges that is not monotone.
C14_Witness ==
    /\ pc = "spread"
    /\ NeededBuilt = npieces
    /\ MergesDip

\* C15: for each m in 1..npieces-1 some k in 0..npieces has
\* possible_merges[k] >= m, so the search of line 226 never fails: once both
\* replay loops are over the last entry is npieces - 1, StopIteration is never
\* raised, and the finished table has one entry for each of 0..npieces-1.
\* It is stated of the table the builder makes from the planner's output,
\* until slot data replaces it.
C15_TableFullyPopulated ==
    /\ pc # "interpreted" => raised # "StopIteration"
    /\ pc \notin {"replay", "interpreted"} =>
          /\ Len(possible_merges) = npieces + 1
          /\ \A m \in 1..(npieces - 1) :
                \E k \in 0..npieces : At(possible_merges, k) >= m
    /\ pc \in {"counted", "spread", "repair", "done"} =>
          /\ NeededBuilt = npieces
          /\ \A m \in 0..(npieces - 1) :
                At(pieces_needed_per_merge, m) \in 0..npieces

\* The table is finished with slack subtracted from some of the entries.
C15_Witness ==
    /\ pc = "spread"
    /\ NeededBuilt = npieces
    /\ options.number_of_checks_out_of_logic > 0
    /\ \E k \in 1..npieces : At(possible_merges, k) < k - 1

\* The running merges_count after the k-th piece of
\* precollected_pieces ++ itempool_pieces on the fresh board.
RunningMerges(k) == hist.calls[k][2]

\* The pieces replayed so far.
ReplayedCount == Len(possible_merges) - 1

\* C19 as stated: possible_merges[k] is the running count minus the slack
\* for all but the last 10 pieces of the order, and the running count itself
\* for the last 10.
C19_AsStated ==
    pc = "replay" =>
       \A k \in 1..ReplayedCount :
          At(possible_merges, k) =
             IF k > npieces - 10
             THEN RunningMerges(k)
             ELSE RunningMerges(k) - options.number_of_checks_out_of_logic

\* C19, amended: the slack is subtracted from the entry of a piece exactly
\* when len(itempool_pieces) - c >= 10 with c the index of the piece in its
\* own list: for the pieces of the item pool that is all but the last 9
\* pieces of the order, and for the k-th precollected piece it is
\* k <= len(itempool_pieces) - 9, wherever that piece stands in the order.
C19_SlackByIndexInOwnList ==
    pc = "replay" =>
       \A k \in 1..ReplayedCount :
          LET P == Len(precollected_pieces)
              I == Len(itempool_pieces)
              subtracted == IF k <= P THEN k <= I - 9 ELSE k <= npieces - 9
          IN  At(possible_merges, k) =
                 IF subtracted
                 THEN RunningMerges(k) - options.number_of_checks_out_of_logic
                 ELSE RunningMerges(k)

\* Every piece is replayed with a slack of 1 and ten or more pieces in the
\* item pool: the tenth piece from the end has the slack subtracted and a
\* precollected piece has not.
C19_Witness ==
    /\ pc = "replay"
    /\ ReplayedCount = npieces
    /\ options.number_of_checks_out_of_logic = 1
    /\ Len(itempool_pieces) >= 10
    /\ At(possible_merges, npieces - 9) = RunningMerges(npieces - 9) - 1
    /\ \E k \in 1..Len(precollected_pieces) : At(possible_merges, k) = RunningMerges(k)

\* The spreading loop of lines 284-294 is over.
SpreadOver ==
    pc \in {"repair", "done", "interpreted"} \/ (pc = "spread" /\ ii >= npieces - 1)

\* C20: after the spreading loop, and so after every swap of the repair
\* loop, item_locations and filler_locations are disjoint, their union is
\* exactly 1..npieces-2, and item_locations has exactly number_of_locations
\* elements (neither list repeats a location).
C20_LocationsPartitionMilestones ==
    SpreadOver =>
       /\ Range(item_locations) \cap Range(filler_locations) = {}
       /\ Range(item_locations) \cup Range(filler_locations) = 1..(npieces - 2)
       /\ Len(item_locations) = number_of_locations
       /\ Cardinality(Range(item_locations)) = number_of_locations
       /\ Len(filler_locations) = (npieces - 2) - number_of_locations
       /\ number_of_locations \in 0..(npieces - 2)

\* A pass of the repair loop has just swapped an item location with a filler
\* location, with both kinds of location present.
C20_Witness ==
    /\ pc = "repair"
    /\ raised = NoError
    /\ do_again
    /\ number_of_locations > 0
    /\ number_of_locations < npieces - 2

\* C16 as stated: with number_of_locations = 0 the item-location set is
\* empty and the repair loop does no repair: no milestone is found deficient
\* (no pass sets do_again), no swap is attempted and no RuntimeError is
\* raised.
C16_AsStated ==
    (pc \in {"spread", "repair", "done"} /\ number_of_locations = 0) =>
       /\ item_locations = <<>>
       /\ ~do_again
       /\ raised # "RuntimeError"

\* item_locations as the spreading loop leaves it (lines 284-294), from
\* milestone i on.
RECURSIVE SpreadItems(_, _, _)
SpreadItems(i, locs_left, items_left) ==
    IF i >= npieces - 1 THEN <<>>
    ELSE LET in_a_row     == in_a_row_of(locs_left, items_left)
             not_in_a_row == not_in_a_row_of(locs_left, items_left)
         IN  Affine(i, 1, 0, in_a_row)
               \o SpreadItems(i + in_a_row + not_in_a_row,
                              locs_left - (in_a_row + not_in_a_row),
                              items_left - in_a_row)

\* Milestone ii was found deficient with nothing to swap: no item location
\* after it or no filler location at or before it.
FailedAtDeficient ==
    /\ pc = "repair"
    /\ raised = "RuntimeError"
    /\ do_again
    /\ ii = At(possible_merges, Min(npieces, num_pieces))
    /\ \/ item_loc_candidates(item_locations, ii) = <<>>
       \/ filler_loc_candidates(filler_locations, ii) = <<>>

\* A complete pass over the milestones 1..npieces-2 found none deficient.
CleanPass == pc = "done" /\ ~do_again /\ ii = npieces - 1 /\ raised = NoError

\* C17: the repair loop always terminates: once it is entered, after finitely
\* many swaps either a complete pass finds no deficient milestone, or a
\* RuntimeError is raised at a deficient milestone that has no item location
\* after it or no filler location at or before it; and a RuntimeError in the
\* loop is only ever raised so.
C17_RepairTerminates ==
    /\ (pc = "repair") ~> (CleanPass \/ FailedAtDeficient)
    /\ []((pc = "repair" /\ raised # NoError) => FailedAtDeficient)

\* The loop has ended with a clean pass after at least one swap: the item
\* locations are no longer those of the spreading loop.
C17_Witness ==
    /\ CleanPass
    /\ item_locations # SpreadItems(1, npieces - 2, number_of_locations)

\* ------------------------------------------------------------------------
\* The planner's classification and strategies
\* ------------------------------------------------------------------------

\* The piece committed by the k-th add_piece of the planner, the board's
\* merges_count just before it, and the item-pool pieces among the pieces
\* committed before it.
CommittedPiece(k) == hist.calls[k][1] + 1
MergesBefore(k) == IF k = 1 THEN 0 ELSE hist.calls[k - 1][2]
QueuedBefore(k) ==
    Cardinality({j \in 1..(k - 1) : CommittedPiece(j) \in Range(itempool_pieces)})

\* C21: a piece is classified itempool exactly when the board's merges_count
\* before committing it exceeds len(itempool_pieces) + slack; so in every
\* planner state itempool_pieces is empty or len(itempool_pieces) + slack <=
\* merges_count, and the first selected piece is precollected.
C21_ItempoolIffMergesExceedQueue ==
    /\ \A k \in 1..Len(hist.calls) :
          CommittedPiece(k) \in Range(itempool_pieces)
             <=> MergesBefore(k) > QueuedBefore(k) + options.number_of_checks_out_of_logic
    /\ \/ itempool_pieces = <<>>
       \/ Len(itempool_pieces) + options.number_of_checks_out_of_logic <= merges_count
    /\ Len(hist.calls) >= 1 =>
          /\ precollected_pieces # <<>>
          /\ precollected_pieces[1] = CommittedPiece(1)

\* A finished plan with a slack of 1 in which a piece went to the item pool
\* and a later one was precollected again.
C21_Witness ==
    /\ pc = "planned"
    /\ options.number_of_checks_out_of_logic = 1
    /\ itempool_pieces # <<>>
    /\ \E j, k \in 1..Len(hist.calls) :
          /\ j < k
          /\ CommittedPiece(j) \in Range(itempool_pieces)
          /\ CommittedPiece(k) \in Range(precollected_pieces)

\* The planner runs the every-piece-fits strategy with strictness 100.
EveryPieceFitsStrict ==
    /\ options.piece_order = "every_piece_fits"
    /\ options.strictness_piece_order = 100

\* This step commits a piece other than the very first.
CommitsLaterPiece ==
    /\ pc = "plan"
    /\ ~first_piece
    /\ Len(hist'.calls) = Len(hist.calls) + 1

\* The piece this step commits.
JustCommitted == hist'.calls[Len(hist'.calls)][1] + 1

\* The speculative merge delta of piece p on the board as it is.
Delta(p) == get_merges_from_adding_piece(Self, p - 1)

\* C22: under every-piece-fits with strictness 100, every selected piece
\* other than the very first has a nonzero speculative merge delta whenever
\* some remaining piece of the current group has one; with a single priority
\* group the placed pieces always form exactly one cluster and merges_count
\* after k pieces is k - 1.
C22_EveryPieceFits ==
    /\ [][(EveryPieceFitsStrict /\ CommitsLaterPiece) =>
             /\ JustCommitted \in pieces_groups[group]
             /\ (\E q \in pieces_groups[group] : Delta(q) > 0) => Delta(JustCommitted) > 0]_vars
    /\ []((EveryPieceFitsStrict /\ options.piece_order_type = "random_order"
           /\ Placed # {}) =>
             /\ Cardinality(Components(width, Placed)) = 1
             /\ merges_count = Cardinality(Placed) - 1)

\* A six-piece plan finished by every-piece-fits at strictness 100 over a
\* single group: the last piece was committed next to the five on the board.
C22_Witness ==
    /\ EveryPieceFitsStrict
    /\ nx * ny = 6
    /\ pc = "planned"
    /\ options.piece_order_type = "random_order"
    /\ Len(hist.calls) = 6
    /\ merges_count = 5

\* The planner runs the least-merges-possible strategy with strictness 100.
LeastMergesStrict ==
    /\ options.piece_order = "least_merges_possible"
    /\ options.strictness_piece_order = 100

\* C23 as stated: under least-merges-possible with strictness 100, every
\* pick after the first is a remaining piece of the current group whose
\* speculative merge delta is minimal among all remaining pieces of that
\* group at that moment.
C23_AsStated ==
    [][(LeastMergesStrict /\ CommitsLaterPiece) =>
          /\ JustCommitted \in pieces_groups[group]
          /\ \A q \in pieces_groups[group] : Delta(JustCommitted) <= Delta(q)]_vars

\* ------------------------------------------------------------------------
\* add_piece next to several clusters
\* ------------------------------------------------------------------------

\* This step is board.add_piece(last'.piece) on an empty cell.
AddStep ==
    /\ last'.op = "add_piece"
    /\ board[last'.piece] = None
    /\ board'[last'.piece] # None

\* The clusters an add_piece(c) touches, and the cells of a set of clusters.
Touched(c) == found_clusters(Self, c)
CellsOf(ids) == UNION {Range(clusters[t]) : t \in ids}

\* The first cluster of the iteration `it` with the most pieces.
FirstLargest(it) ==
    LET most == CHOOSE n \in {Len(clusters[it[j]]) : j \in 1..Len(it)} :
                   \A j \in 1..Len(it) : Len(clusters[it[j]]) <= n
        first == CHOOSE j \in 1..Len(it) :
                   /\ Len(clusters[it[j]]) = most
                   /\ \A h \in 1..(j - 1) : Len(clusters[it[h]]) < most
    IN  it[first]

\* C24: when add_piece(c) touches k >= 2 distinct clusters, merges_count
\* increases by k, the surviving id is that of a touched cluster of maximum
\* size, every cell of the other k-1 clusters and c itself is reassigned to
\* the survivor (no other cell changes), and exactly the k-1 absorbed ids
\* are returned to the free pool; on ties the survivor is the first cluster
\* of maximum size that the iteration over the touched clusters meets.
C24_MergeOfSeveralClusters ==
    /\ [][LET c        == last'.piece
              touched  == Touched(c)
              survivor == board'[c]
              absorbed == touched \ {survivor}
          IN  (AddStep /\ Cardinality(touched) >= 2) =>
                 /\ merges_count' = merges_count + Cardinality(touched)
                 /\ survivor \in touched
                 /\ \A t \in touched : Len(clusters[t]) <= Len(clusters[survivor])
                 /\ \A i \in Cells :
                       board'[i] = IF i = c \/ board[i] \in touched
                                   THEN survivor ELSE board[i]
                 /\ DOMAIN clusters' = (DOMAIN clusters) \ absorbed
                 /\ Range(clusters'[survivor]) = CellsOf(touched) \cup {c}
                 /\ Len(clusters'[survivor]) = Cardinality(CellsOf(touched)) + 1
                 /\ \A t \in (DOMAIN clusters') \ {survivor} : clusters'[t] = clusters[t]
                 /\ Len(unused_ids') = Len(unused_ids) + Cardinality(touched) - 1
                 /\ SubSeq(unused_ids', 1, Len(unused_ids)) = unused_ids
                 /\ {unused_ids'[j] : j \in (Len(unused_ids) + 1)..Len(unused_ids')} = absorbed
                 /\ raised' = NoError]_vars
    /\ [](raised = NoError =>
            \A c \in Cells \ Placed :
               Cardinality(Touched(c)) >= 2 =>
                  \A it \in Orders(Touched(c)) :
                     add_piece_iter(Self, c, it).board[c] = FirstLargest(it))

\* add_piece has just joined two clusters of different sizes (the piece's
\* cluster now has four cells), with merges_count going up by 2.
C24_Witness ==
    /\ IsAdd
    /\ raised = NoError
    /\ board[last.piece] # None
    /\ merges_count = last.merges + 2
    /\ Len(clusters[board[last.piece]]) = 4

\* ------------------------------------------------------------------------
\* The pool of cluster ids
\* ------------------------------------------------------------------------

\* The empty cells with no placed neighbour: add_piece on one of them pops a
\* new id from the pool.
IsolatedCells == {c \in Cells \ Placed : found_clusters(Self, c) = {}}

\* C25: the id pool is never exhausted: in every state reached by add_piece
\* on empty cells and remove_piece on placed cells, the pool is non-empty
\* whenever an add_piece would need a new id for an isolated piece, and no
\* call, nor any add_piece replayed inside remove_piece, has raised the
\* IndexError of a pop from the empty pool.
C25_PoolNeverExhausted ==
    /\ raised # "IndexError"
    /\ IsolatedCells # {} => unused_ids # <<>>

\* remove_piece has split a cluster into as many single pieces as the pool
\* has ids: its replay popped the last id.
C25_Witness ==
    /\ IsRemove
    /\ raised = NoError
    /\ unused_ids = <<>>
    /\ Cardinality(DOMAIN clusters) = PoolCapacity
    /\ Cardinality(DOMAIN clusters) >= 2
    /\ merges_count = 0

\* ------------------------------------------------------------------------
\* Milestones in logic
\* ------------------------------------------------------------------------

\* The pieces obtainable by milestone i: the precollected ones and
\* min_pieces_per_location for every item location at or before i.
PiecesBy(i) ==
    Len(precollected_pieces)
      + min_pieces_per_location * Cardinality({loc \in Range(item_locations) : loc <= i})

\* C26: when the repair loop ends without error, every milestone i in
\* 1..npieces-2 is in logic: with n_i the pieces obtainable by milestone i,
\* possible_merges[min(npieces, n_i)] > i, so those pieces always allow at
\* least one further merge.
C26_MilestonesInLogic ==
    CleanPass =>
       \A i \in 1..(npieces - 2) : At(possible_merges, Min(npieces, PiecesBy(i))) > i

\* The loop has ended cleanly after a swap, and some milestone is only just
\* in logic: the pieces obtainable by it allow exactly one further merge.
C26_Witness ==
    /\ CleanPass
    /\ number_of_locations > 0
    /\ item_locations # SpreadItems(1, npieces - 2, number_of_locations)
    /\ \E i \in 1..(npieces - 2) : At(possible_merges, Min(npieces, PiecesBy(i))) = i + 1

====
